---- MODULE Spec2Model ----
(***************************************************************************)
(* Model of langchain_soniox.SonioxDocumentLoader: construction of a        *)
(* loader, and the upload -> create -> poll -> fetch -> cleanup sequence    *)
(* that lazy_load (blocking) and alazy_load (cooperative) run against the   *)
(* remote transcription service.                                            *)
(*                                                                         *)
(* The remote service, the clock, the process environment and the consumer  *)
(* of the generator are the environment: every response the code accepts    *)
(* (any HTTP status, a body that validates or not, a transport exception)   *)
(* is a nondeterministic input.                                             *)
(***************************************************************************)
EXTENDS Integers, Sequences, FiniteSets, TLC

\* ------------------------------------------------------------------------
\* Bounds of the model
\* ------------------------------------------------------------------------

\* largest timeout_seconds a loader is constructed with
MaxTimeout == 1
\* largest number of status polls one invocation issues in the model
MaxPolls == 2
\* largest clock advance while one status poll is in flight
MaxDelay == 1
\* largest number of tokens in a transcript
MaxTokens == 2

\* ------------------------------------------------------------------------
\* Python values
\* ------------------------------------------------------------------------

\* Python's None (also what f"{None}" renders)
None == "None"

\* bool(x) for an Optional[str] / Optional[bytes]: None and the empty value
\* are falsy
Truthy(x) == x /= None /\ x /= ""

\* candidate constructor arguments: absent, empty, a real value
PathArgs == {None, "", "audio/test.mp3"}
DataArgs == {None, "", "data"}
UrlArgs == {None, "", "https://example.com/a.mp3"}
KeyArgs == {None, "", "test_key"}
BaseUrlArgs == {None, "https://api.soniox.com/v1"}
\* values SONIOX_API_KEY can have in the process environment (None: unset)
EnvValues == {None, "", "env_key"}
TimeoutArgs == 0..MaxTimeout
IntervalArgs == {0, 1}

\* the fields of SonioxTranscriptionOptions: model, and two of the optional
\* ones (a flag and a string) standing for the ten
OptionFields == {"model", "enable_speaker_diarization", "client_reference_id"}
\* the fields SonioxCreateTranscriptionRequest adds
SourceFields == {"audio_url", "file_id"}

\* the value of a field the caller did not set
FieldDefault(f) == IF f = "model" THEN "stt-async-v4" ELSE None

\* SonioxTranscriptionOptions objects: every field holds the caller's value
\* or its default (False and True are written as strings)
OptionObjects ==
    {o \in [OptionFields -> {None, "", "False", "True", "ref", "stt-async-v4", "stt-rt-v3"}] :
        /\ o["model"] \in {"stt-async-v4", "stt-rt-v3"}
        /\ o["enable_speaker_diarization"] \in {None, "False", "True"}
        /\ o["client_reference_id"] \in {None, "", "ref"}}

\* SonioxCreateTranscriptionRequest objects, which are SonioxTranscriptionOptions
\* objects too (a subclass): default options, a source field or two set
RequestObjects ==
    {o \in [OptionFields \cup SourceFields ->
               {None, "stt-async-v4", "https://example.com/b.mp3", "file_000"}] :
        /\ \A f \in OptionFields : o[f] = FieldDefault(f)
        /\ o["audio_url"] \in {None, "https://example.com/b.mp3"}
        /\ o["file_id"] \in {None, "file_000"}}

\* options=None: an object with no field
NoOptions == [f \in {} |-> None]

\* `options if options else SonioxTranscriptionOptions()`
options_or_default(options) ==
    IF DOMAIN options = {}
    THEN [f \in OptionFields |-> FieldDefault(f)]
    ELSE options

\* the options argument
OptionArgs == {NoOptions} \cup OptionObjects \cup RequestObjects

CtorArgs ==
    [file_path : PathArgs, file_data : DataArgs, file_url : UrlArgs,
     api_key : KeyArgs, base_url : BaseUrlArgs,
     timeout_seconds : TimeoutArgs, polling_interval_seconds : IntervalArgs,
     options : OptionArgs]

\* the construction calls whose loaders the invocations are followed on:
\* every source, base URL and timing, the key given or left to the environment,
\* the default options
RunArgs == {a \in CtorArgs : a.api_key \in {None, "test_key"} /\ a.options = NoOptions}

\* ------------------------------------------------------------------------
\* Exceptions: kind, and the attributes the properties speak about
\* ------------------------------------------------------------------------

NoExc == [kind |-> "none", status_code |-> 0, message |-> <<>>]

Exc(k, m) == [kind |-> k, status_code |-> 0, message |-> m]

\* SonioxAPIError(resp): status_code is the response's status code
SonioxAPIError(status) ==
    [kind |-> "SonioxAPIError", status_code |-> status, message |-> <<>>]

\* HTTP statuses of the responses a SonioxAPIError is built from
ErrorStatuses == {400, 401, 404, 429, 500, 503}

\* the structured error payloads a body can hold: the fields of ApiError
\* (validation_errors left to its default), with or without a field ApiError
\* does not declare. The status_code of the body need not be the status of
\* the HTTP response
ApiErrorPayloads ==
    [status_code : {400, 500}, error_type : {"invalid_request"},
     message : {"", "Invalid audio"}, request_id : {"req_1", "req_2"}]
    \cup [status_code : {400, 500}, error_type : {"invalid_request"},
          message : {"", "Invalid audio"}, request_id : {"req_1", "req_2"},
          detail : {"extra"}]

\* response.json() raised ValueError: the body is not JSON
NotJson == [not_json |-> TRUE]

\* bodies of error responses: the raw text, and what response.json() makes
\* of it: a structured error; JSON of another shape (no request_id; no
\* field at all); text that is not JSON; nothing
ErrorBodies ==
    {[text |-> "{structured error}", json |-> p] : p \in ApiErrorPayloads}
    \cup {[text |-> "{\"message\": \"Invalid audio\"}",
           json |-> [message |-> "Invalid audio"]],
          [text |-> "{}", json |-> [f \in {} |-> 0]],
          [text |-> "Internal Server Error", json |-> NotJson],
          [text |-> "", json |-> NotJson]}

\* the httpx.Response objects a SonioxAPIError is built from
ErrorResponses ==
    {[status_code |-> s, text |-> b.text, json |-> b.json] :
        s \in ErrorStatuses, b \in ErrorBodies}

\* ApiError.model_validate(payload) does not raise: every required field is
\* there (extra fields are allowed)
ApiError_validates(payload) ==
    {"status_code", "error_type", "message", "request_id"} \subseteq DOMAIN payload

\* api_error is None
NoApiError == [f \in {} |-> 0]

\* SonioxAPIError.__init__ taking status_code from the parsed body
SonioxAPIError_init_body_status(response) ==
    IF response.json /= NotJson /\ ApiError_validates(response.json)
    THEN [status_code |-> response.json.status_code,
          request_id |-> response.json.request_id,
          api_error |-> response.json,
          message |-> <<response.json.message>>]
    ELSE [status_code |-> response.status_code,
          request_id |-> None,
          api_error |-> NoApiError,
          message |-> IF response.text /= "" THEN <<response.text>>
                      ELSE <<"Request failed with status ", response.status_code>>]

\* SonioxAPIError.__init__: the attributes of the exception, and the message
\* given to Exception.__init__
SonioxAPIError_init(response) ==
    IF response.json /= NotJson /\ ApiError_validates(response.json)
    THEN [status_code |-> response.status_code,
          request_id |-> response.json.request_id,
          api_error |-> response.json,
          message |-> <<response.json.message>>]
    ELSE [status_code |-> response.status_code,
          request_id |-> None,
          api_error |-> NoApiError,
          message |-> IF response.text /= "" THEN <<response.text>>
                      ELSE <<"Request failed with status ", response.status_code>>]

\* ------------------------------------------------------------------------
\* Construction
\* ------------------------------------------------------------------------

\* args_provided counting the truthy sources instead of the given ones
args_provided_truthy(a) ==
    (IF Truthy(a.file_path) THEN 1 ELSE 0)
    + (IF Truthy(a.file_data) THEN 1 ELSE 0)
    + (IF Truthy(a.file_url) THEN 1 ELSE 0)

\* sum(x is not None for x in (file_path, file_data, file_url))
args_provided(a) ==
    (IF a.file_path /= None THEN 1 ELSE 0)
    + (IF a.file_data /= None THEN 1 ELSE 0)
    + (IF a.file_url /= None THEN 1 ELSE 0)

\* get_from_env called with an empty default: a missing variable is no error
get_from_env_default(env) ==
    IF Truthy(env)
    THEN [ok |-> TRUE, value |-> env, exc |-> NoExc]
    ELSE [ok |-> TRUE, value |-> "", exc |-> NoExc]

\* langchain_core.utils.get_from_env("api_key", "SONIOX_API_KEY"): the value
\* of the variable when it is set and non-empty, ValueError otherwise
get_from_env(env) ==
    IF Truthy(env)
    THEN [ok |-> TRUE, value |-> env, exc |-> NoExc]
    ELSE [ok |-> FALSE, value |-> None,
          exc |-> Exc("ValueError", <<"Did not find api_key">>)]

NoLoader == [constructed |-> FALSE]

\* InitLoader with the lookup order reversed: the environment first, the
\* api_key argument as the fallback
InitLoader_env_first(a, env) ==
    IF args_provided(a) /= 1
    THEN [loader |-> NoLoader, consulted |-> FALSE,
          exc |-> Exc("SonioxClientError",
                      <<"You must specify exactly one of 'file_path', 'file_data', or 'file_url'.">>)]
    ELSE IF ~Truthy(env) /\ ~Truthy(a.api_key)
    THEN [loader |-> NoLoader, consulted |-> TRUE, exc |-> get_from_env(env).exc]
    ELSE [loader |-> [constructed |-> TRUE,
                      api_key |-> IF Truthy(env) THEN env ELSE a.api_key,
                      file_path |-> a.file_path, file_data |-> a.file_data,
                      file_url |-> a.file_url, base_url |-> a.base_url,
                      timeout_seconds |-> a.timeout_seconds,
                      polling_interval_seconds |-> a.polling_interval_seconds,
                      options |-> options_or_default(a.options)],
          consulted |-> TRUE, exc |-> NoExc]

\* the result of SonioxDocumentLoader(**a) under environment value env:
\* the loader object or the exception raised, and whether the environment
\* was looked up
InitLoader(a, env) ==
    IF args_provided(a) /= 1
    THEN [loader |-> NoLoader, consulted |-> FALSE,
          exc |-> Exc("SonioxClientError",
                      <<"You must specify exactly one of 'file_path', 'file_data', or 'file_url'.">>)]
    ELSE IF Truthy(a.api_key)
    THEN [loader |-> [constructed |-> TRUE, api_key |-> a.api_key,
                      file_path |-> a.file_path, file_data |-> a.file_data,
                      file_url |-> a.file_url, base_url |-> a.base_url,
                      timeout_seconds |-> a.timeout_seconds,
                      polling_interval_seconds |-> a.polling_interval_seconds,
                      options |-> options_or_default(a.options)],
          consulted |-> FALSE, exc |-> NoExc]
    ELSE IF ~get_from_env(env).ok
    THEN [loader |-> NoLoader, consulted |-> TRUE, exc |-> get_from_env(env).exc]
    ELSE IF ~Truthy(get_from_env(env).value)
    THEN [loader |-> NoLoader, consulted |-> TRUE,
          exc |-> Exc("SonioxClientError",
                      <<"Soniox API key must be provided or set in SONIOX_API_KEY env variable.">>)]
    ELSE [loader |-> [constructed |-> TRUE, api_key |-> get_from_env(env).value,
                      file_path |-> a.file_path, file_data |-> a.file_data,
                      file_url |-> a.file_url, base_url |-> a.base_url,
                      timeout_seconds |-> a.timeout_seconds,
                      polling_interval_seconds |-> a.polling_interval_seconds,
                      options |-> options_or_default(a.options)],
          consulted |-> TRUE, exc |-> NoExc]

\* ------------------------------------------------------------------------
\* The remote service: responses to the six requests
\* ------------------------------------------------------------------------

\* HTTP status codes the service (or a proxy in front of it) answers with:
\* a success, a redirect (httpx does not follow redirects unless asked to),
\* a server error
StatusCodes == {200, 302, 500}

\* httpx.Response.is_error: the status code is a 4xx or a 5xx
is_error(status) == status >= 400 /\ status <= 599

\* a "non-2xx response" of the specification
Non2xx(status) == status < 200 \/ status > 299

\* ids the upload and create responses can carry (any str validates)
FileIds == {"", "file_123"}
JobIds == {"", "trans_456"}
\* TranscriptionStatus
JobStatuses == {"queued", "processing", "completed", "error"}
ErrorMessages == {None, "Audio format not supported"}

\* a request that raised instead of returning (connection failure, request
\* timeout)
\* audio_duration_ms: Optional[int]; None is written <<>>, n is written <<n>>
NoDuration == <<>>

Raised ==
    [raised |-> TRUE, status |-> 0, valid |-> FALSE, id |-> None,
     jstatus |-> None, error_message |-> None,
     audio_duration_ms |-> NoDuration, model |-> "stt-async-v4",
     created_at |-> "2024-11-26T00:00:00Z"]

\* a response with a status code; valid: the body is JSON that passes the
\* model_validate of the step
Http(s, v, id, js, msg) ==
    [raised |-> FALSE, status |-> s, valid |-> v, id |-> id,
     jstatus |-> js, error_message |-> msg,
     audio_duration_ms |-> NoDuration, model |-> "stt-async-v4",
     created_at |-> "2024-11-26T00:00:00Z"]

\* the audio_duration_ms, model and created_at a create or status response
\* can carry
Metas ==
    [audio_duration_ms : {NoDuration, <<1000>>},
     model : {"stt-async-v4", "stt-async-v3"},
     created_at : {"2024-11-26T00:00:00Z", "2024-11-26T00:00:01Z"}]

\* response r carrying the three fields of m
WithMeta(r, m) ==
    [r EXCEPT !.audio_duration_ms = m.audio_duration_ms, !.model = m.model,
              !.created_at = m.created_at]

\* the audio_duration_ms, model and created_at of a validated create or
\* status response
status_metadata(r) ==
    [audio_duration_ms |-> r.audio_duration_ms, model |-> r.model,
     created_at |-> r.created_at]

\* the statuses the code takes for an error, and the others
ErrorCodes == {s \in StatusCodes : is_error(s)}
PassCodes == StatusCodes \ ErrorCodes

\* responses whose body does not validate: every error response (its body is
\* an error payload, not the step's response model), and any other response
\* with a body that is not the JSON the step expects
InvalidBodies == {Http(s, FALSE, None, None, None) : s \in StatusCodes}

\* SonioxFileUploadResponse
UploadResponses ==
    {Raised} \cup InvalidBodies
    \cup {Http(s, TRUE, f, None, None) : s \in PassCodes, f \in FileIds}

\* SonioxCreateTranscriptionResponse
CreateResponses ==
    {Raised} \cup InvalidBodies
    \cup {Http(s, TRUE, t, "queued", None) : s \in PassCodes, t \in JobIds}

\* SonioxTranscriptionStatusResponse
PollResponses ==
    {Raised} \cup InvalidBodies
    \cup {Http(s, TRUE, "trans_456", js, None) :
            s \in PassCodes, js \in JobStatuses}
    \cup {Http(s, TRUE, "trans_456", "error", m) :
            s \in PassCodes, m \in ErrorMessages}

\* a field a JSON object does not carry
Absent == "absent"

\* TranscriptionToken objects as the service sends them: text, and the
\* optional speaker (standing for the optional fields) given or left out
TokenValues ==
    {[text |-> "Hello", speaker |-> Absent], [text |-> "world", speaker |-> "1"]}

\* the token lists of a transcript, the empty one included
TokenLists == UNION {[1..n -> TokenValues] : n \in 0..MaxTokens}

\* the text of a transcript
TranscriptTexts == {"", "Hello world"}

\* a transcript response whose body validates
Transcript(s, text, tokens) ==
    [raised |-> FALSE, status |-> s, valid |-> TRUE, id |-> "trans_456",
     jstatus |-> None, error_message |-> None, text |-> text, tokens |-> tokens]

\* SonioxTranscriptResponse
TranscriptResponses ==
    {Raised} \cup InvalidBodies
    \cup {Transcript(s, t, tk) :
            s \in PassCodes, t \in TranscriptTexts, tk \in TokenLists}

\* the transcript of the test suite ("Hello world" in two tokens), and the
\* ways the fetch fails
CannedTranscripts ==
    {Raised} \cup InvalidBodies
    \cup {Transcript(s, "Hello world",
                     <<[text |-> "Hello", speaker |-> Absent],
                       [text |-> "world", speaker |-> "1"]>>) : s \in PassCodes}

\* what a delete can do: raise, succeed, or be refused (the response is never
\* looked at)
DeleteResponses ==
    {Raised} \cup {Http(s, FALSE, None, None, None) : s \in {200, 500}}

\* StepExc with no validation of the body: any body of a response that is
\* not an error is taken as it comes
StepExc_no_validation(r) ==
    IF r.raised THEN Exc("TransportError", <<>>)
    ELSE IF is_error(r.status) THEN SonioxAPIError(r.status)
    ELSE NoExc

\* the exception a step raises on response r, NoExc when the step goes on:
\* the transport's exception, SonioxAPIError when resp.is_error, the
\* json()/model_validate error when the body does not validate
StepExc(r) ==
    IF r.raised THEN Exc("TransportError", <<>>)
    ELSE IF is_error(r.status) THEN SonioxAPIError(r.status)
    ELSE IF ~r.valid THEN Exc("ValidationError", <<>>)
    ELSE NoExc

\* StatusExc dropping the server's error_message from the exception
StatusExc_no_message(r) ==
    IF r.jstatus = "error"
    THEN Exc("SonioxTranscriptionFailedError", <<"Transcription failed">>)
    ELSE NoExc

\* the exception the poll loop raises on a validated status response
StatusExc(r) ==
    IF r.jstatus = "error"
    THEN Exc("SonioxTranscriptionFailedError",
             <<"Transcription failed: ", r.error_message>>)
    ELSE NoExc

\* TimeoutExc raising the error-status exception class for a timeout
TimeoutExc_as_failed(timeout) ==
    Exc("SonioxTranscriptionFailedError",
        <<"Transcription timed out after ", timeout, "s">>)

\* SonioxTimeoutError(f"Transcription timed out after {timeout_seconds}s")
TimeoutExc(timeout) ==
    Exc("SonioxTimeoutError", <<"Transcription timed out after ", timeout, "s">>)

\* the deadline test with >= : reaching the deadline is a timeout
TimedOut_inclusive(t, start, timeout) == t - start >= timeout

\* time.time() - start_time > self.timeout_seconds
TimedOut(t, start, timeout) == t - start > timeout

\* TranscriptionToken.model_dump(): every declared field, None for the ones
\* the service left out
model_dump_token(t) ==
    [text |-> t.text, speaker |-> IF t.speaker = Absent THEN None ELSE t.speaker]

\* the token list built back to front
dump_tokens_reversed(tokens) ==
    [k \in 1..Len(tokens) |-> model_dump_token(tokens[Len(tokens) + 1 - k])]

\* [t.model_dump() for t in transcript_obj.tokens]
dump_tokens(tokens) == [k \in 1..Len(tokens) |-> model_dump_token(tokens[k])]

\* _create_document with no sentinel: the source of in-memory data is the
\* (absent) path
create_document_no_sentinel(l, transcript_obj, status_data, transcription_id) ==
    [page_content |-> transcript_obj.text,
     source |-> IF Truthy(l.file_url) THEN l.file_url ELSE l.file_path,
     transcription_id |-> transcription_id,
     audio_duration_ms |-> status_data.audio_duration_ms,
     model |-> status_data.model,
     created_at |-> status_data.created_at,
     tokens |-> dump_tokens(transcript_obj.tokens)]

\* _create_document
create_document(l, transcript_obj, status_data, transcription_id) ==
    [page_content |-> transcript_obj.text,
     source |-> IF Truthy(l.file_url) THEN l.file_url
                ELSE IF Truthy(l.file_path) THEN l.file_path
                ELSE "file_upload",
     transcription_id |-> transcription_id,
     audio_duration_ms |-> status_data.audio_duration_ms,
     model |-> status_data.model,
     created_at |-> status_data.created_at,
     tokens |-> dump_tokens(transcript_obj.tokens)]

\* model_dump() without exclude_none: a field that holds None is a key of the
\* dict, with value None
model_dump_keep_none(o) == o

\* model_dump(exclude_none=True): the dict of the fields that do not hold None
model_dump_exclude_none(o) == [f \in {g \in DOMAIN o : o[g] /= None} |-> o[f]]

\* SonioxCreateTranscriptionRequest(**d): the keys of d set, every other
\* field at its default
CreateTranscriptionRequest(d) ==
    [f \in OptionFields \cup SourceFields |->
        IF f \in DOMAIN d THEN d[f] ELSE FieldDefault(f)]

\* os.path.basename, on the paths of the model
basename(path) == IF path = "audio/test.mp3" THEN "test.mp3" ELSE path

\* the bytes of the file at a path
read_file(path) == IF path = "audio/test.mp3" THEN "mp3 bytes" ELSE ""

\* no upload: no multipart body
NoFiles == [filename |-> None, content |-> None]

\* the multipart body with alazy_load sending the path as the file name
upload_files_async_full_path(l, m) ==
    IF Truthy(l.file_data)
    THEN [filename |-> "audio_file", content |-> l.file_data]
    ELSE [filename |-> IF m = "async" THEN l.file_path ELSE basename(l.file_path),
          content |-> read_file(l.file_path)]

\* the multipart body of the upload, `files`, in lazy_load (m = "sync") and
\* alazy_load (m = "async"): the given bytes as "audio_file", or the file at
\* the path under its base name. lazy_load hands the transport the open file,
\* which it reads while sending; alazy_load reads the file first and hands
\* over the bytes
upload_files(l, m) ==
    IF Truthy(l.file_data)
    THEN [filename |-> "audio_file", content |-> l.file_data]
    ELSE [filename |-> basename(l.file_path), content |-> read_file(l.file_path)]

\* no payload: the dict with no key
NoPayload == [f \in {} |-> None]

\* _prepare_create_payload: the payload, or the exception it raises
prepare_create_payload(l, file_id) ==
    LET request_payload ==
            CreateTranscriptionRequest(model_dump_exclude_none(l.options))
    IN  IF Truthy(l.file_url)
        THEN [exc |-> NoExc,
              payload |-> model_dump_exclude_none(
                            [request_payload EXCEPT !["audio_url"] = l.file_url])]
        ELSE IF Truthy(file_id)
        THEN [exc |-> NoExc,
              payload |-> model_dump_exclude_none(
                            [request_payload EXCEPT !["file_id"] = file_id])]
        ELSE [exc |-> Exc("SonioxClientError", <<"No file source provided.">>),
              payload |-> NoPayload]

\* AfterDelete without the except clause: an exception of the delete request
\* replaces the pending one
AfterDelete_propagates(pending, r) ==
    IF r.raised THEN Exc("TransportError", <<>>) ELSE pending

\* the except clauses of the cleanup: whatever a delete does, the pending
\* exception of the try block is what goes on propagating
AfterDelete(pending, r) == pending

\* the invocations of lazy_load / alazy_load the model follows
Invocations == {1, 2}
Modes == {"sync", "async"}

\* _get_headers: {"Authorization": f"Bearer {self.api_key}"}
get_headers(l) == [Authorization |-> <<"Bearer ", l.api_key>>]

\* no headers built yet
NoHeaders == [Authorization |-> <<>>]

\* no response yet
NoResp == Http(0, FALSE, None, None, None)

\* an invocation that has not started. Locals of the generator: headers,
\* file_id, transcription_id, start_time, final_status, resp (the outcome of
\* the last step request). Bookkeeping: pc, session, exc (the exception
\* propagating through the finally clause), outcome (what reached the
\* caller), log (the requests issued, in order), docs (the documents
\* yielded), job_delete and file_delete (what the two deletes did), and the
\* history bits primary (the exception the try block was left with), non2xx
\* (some step response had a status outside 2xx), all_pending (every status
\* poll so far was answered queued or processing), closed (the consumer
\* closed the generator), seen (the audio_duration_ms, model and created_at of
\* the create response and of every status response validated so far, in
\* order), interrupted (the job delete was left by an exception that
\* `except Exception` does not catch). final_status = None is written NoResp
Idle ==
    [mode |-> None, pc |-> "idle", headers |-> NoHeaders, session |-> "none",
     file_id |-> None, transcription_id |-> None, start_time |-> 0,
     final_status |-> NoResp, resp |-> NoResp, polls |-> 0,
     exc |-> NoExc, primary |-> NoExc, outcome |-> NoExc,
     job_delete |-> NoResp, file_delete |-> NoResp,
     non2xx |-> FALSE, all_pending |-> TRUE, closed |-> FALSE,
     log |-> <<>>, files |-> NoFiles, payload |-> NoPayload, docs |-> <<>>,
     seen |-> <<>>, interrupted |-> FALSE]

\* one request as the transport saw it: what it is, the id in its path, the
\* API key of its Authorization header
Request(kind, target, hdrs) == [req |-> kind, target |-> target, auth |-> hdrs]

\* invocation state c after a step request of the given kind got outcome r
Sent(c, kind, target, r) ==
    [c EXCEPT !.log = Append(@, Request(kind, target, c.headers)),
              !.resp = r,
              !.non2xx = @ \/ (~r.raised /\ Non2xx(r.status))]

VARIABLES
    now,            \* time.time()
    call,           \* call[i]: the state of invocation i
    environ,        \* value of SONIOX_API_KEY in the process environment
    ctor_args,      \* arguments of the construction call, NotCalled before it
    ctor_exc,       \* exception the construction call raised, NoExc if none
    env_consulted,  \* whether construction looked the environment up
    loader,         \* the constructed loader, NoLoader if there is none
    api_error       \* a SonioxAPIError built from a response, NotBuilt before

NotCalled == [called |-> FALSE]

NotBuilt == [built |-> FALSE]

vars == <<now, call, environ, ctor_args, ctor_exc, env_consulted, loader, api_error>>

Init ==
    /\ now = 0
    /\ call = [i \in Invocations |-> Idle]
    /\ environ \in EnvValues
    /\ ctor_args = NotCalled
    /\ ctor_exc = NoExc
    /\ env_consulted = FALSE
    /\ loader = NoLoader
    /\ api_error = NotBuilt

\* SonioxDocumentLoader.__init__
Construct(Args) ==
    /\ ctor_args = NotCalled
    /\ \E a \in Args :
        /\ ctor_args' = a
        /\ ctor_exc' = InitLoader(a, environ).exc
        /\ env_consulted' = InitLoader(a, environ).consulted
        /\ loader' = InitLoader(a, environ).loader
    /\ UNCHANGED <<now, call, environ, api_error>>

\* Raise with the cleanup after the try block instead of in a finally clause:
\* an exception skips it
Raise_skips_cleanup(c, e) == [c EXCEPT !.exc = e, !.primary = e, !.pc = "exit"]

\* the try block is left with exception e: the finally clause runs next
Raise(c, e) == [c EXCEPT !.exc = e, !.primary = e, !.pc = "delete_job"]

\* the steps of an invocation
Moves ==
    {"start", "open_fails", "upload", "payload_fails", "create", "timeout",
     "poll", "sleep", "fetch", "resume", "close", "delete_job", "delete_file",
     "exit"}

\* invocation state c is where step k is the code's next step (or one of
\* its next steps, where the service or the consumer decides)
CanStep(c, k) ==
    CASE k = "start" -> loader.constructed /\ c.pc = "idle"
      [] k = "open_fails" -> c.pc = "upload" /\ ~Truthy(loader.file_data)
      [] k = "upload" -> c.pc = "upload"
      [] k = "payload_fails" ->
            c.pc = "create" /\ prepare_create_payload(loader, c.file_id).exc /= NoExc
      [] k = "create" ->
            c.pc = "create" /\ prepare_create_payload(loader, c.file_id).exc = NoExc
      [] k = "timeout" ->
            c.pc = "poll" /\ TimedOut(now, c.start_time, loader.timeout_seconds)
      [] k = "poll" ->
            /\ c.pc = "poll"
            /\ ~TimedOut(now, c.start_time, loader.timeout_seconds)
            /\ c.polls < MaxPolls
      [] k = "sleep" -> c.pc = "sleep"
      [] k = "fetch" -> c.pc = "fetch"
      [] k \in {"resume", "close"} -> c.pc = "yielded"
      [] k = "delete_job" -> c.pc = "delete_job"
      [] k = "delete_file" -> c.pc = "delete_file"
      [] k = "exit" -> c.pc = "exit"

\* the first next() going to the create step whatever the source
Started_create_first(c, m) ==
    IF loader.base_url = None
    THEN [c EXCEPT !.mode = m, !.headers = get_headers(loader),
            !.outcome = Exc("SonioxClientError", <<"base_url must be provided.">>),
            !.primary = Exc("SonioxClientError", <<"base_url must be provided.">>),
            !.pc = "done"]
    ELSE [c EXCEPT !.mode = m, !.headers = get_headers(loader),
            !.session = "open", !.pc = "create"]

\* invocation state c after the first next() on lazy_load (m = "sync") or
\* alazy_load (m = "async")
Started(c, m) ==
    IF loader.base_url = None
    THEN [c EXCEPT !.mode = m, !.headers = get_headers(loader),
            !.outcome = Exc("SonioxClientError", <<"base_url must be provided.">>),
            !.primary = Exc("SonioxClientError", <<"base_url must be provided.">>),
            !.pc = "done"]
    ELSE [c EXCEPT !.mode = m, !.headers = get_headers(loader),
            !.session = "open",
            !.pc = IF Truthy(loader.file_data) \/ Truthy(loader.file_path)
                   THEN "upload" ELSE "create"]

\* Start with the base_url check made inside the session and its try block
Start_checks_inside(i, m) ==
    /\ loader.constructed
    /\ call[i].pc = "idle"
    /\ call' = [call EXCEPT ![i] =
         IF loader.base_url = None
         THEN Raise([@ EXCEPT !.mode = m, !.headers = get_headers(loader),
                              !.session = "open"],
                    Exc("SonioxClientError", <<"base_url must be provided.">>))
         ELSE [@ EXCEPT !.mode = m, !.headers = get_headers(loader),
                 !.session = "open",
                 !.pc = IF Truthy(loader.file_data) \/ Truthy(loader.file_path)
                        THEN "upload" ELSE "create"]]
    /\ UNCHANGED <<now, environ, ctor_args, ctor_exc, env_consulted, loader, api_error>>

\* first next() on lazy_load (m = "sync") or alazy_load (m = "async"): the
\* headers, the base_url check, the session
Start(i, m) ==
    /\ CanStep(call[i], "start")
    /\ call' = [call EXCEPT ![i] = Started(@, m)]
    /\ UNCHANGED <<now, environ, ctor_args, ctor_exc, env_consulted, loader, api_error>>

\* opening the local file fails (file_path source only)
OpenFailed(c) == Raise(c, Exc("OSError", <<>>))

UploadOpenFails(i) ==
    /\ CanStep(call[i], "open_fails")
    /\ call' = [call EXCEPT ![i] = OpenFailed(@)]
    /\ UNCHANGED <<now, environ, ctor_args, ctor_exc, env_consulted, loader, api_error>>

\* the upload step keeping the name the file was sent under in place of the
\* id of the response
Uploaded_keeps_filename(c, r) ==
    LET s == [Sent(c, "upload", None, r) EXCEPT
                !.files = upload_files(loader, c.mode)]
    IN  IF StepExc(r) /= NoExc THEN Raise(s, StepExc(r))
        ELSE [s EXCEPT !.file_id = "audio_file", !.pc = "create"]

\* what the upload step does with response r of POST /files
Uploaded(c, r) ==
    LET s == [Sent(c, "upload", None, r) EXCEPT
                !.files = upload_files(loader, c.mode)]
    IN  IF StepExc(r) /= NoExc THEN Raise(s, StepExc(r))
        ELSE [s EXCEPT !.file_id = r.id, !.pc = "create"]

\* POST /files and the handling of its response
Upload(i) ==
    /\ CanStep(call[i], "upload")
    /\ \E r \in UploadResponses : call' = [call EXCEPT ![i] = Uploaded(@, r)]
    /\ UNCHANGED <<now, environ, ctor_args, ctor_exc, env_consulted, loader, api_error>>

\* _prepare_create_payload raising only once the create request has gone out
PayloadFailed_after_send(c) ==
    Raise(Sent(c, "create", None, NoResp),
          prepare_create_payload(loader, c.file_id).exc)

\* _prepare_create_payload raises: no request is sent
PayloadFailed(c) == Raise(c, prepare_create_payload(loader, c.file_id).exc)

CreatePayloadFails(i) ==
    /\ CanStep(call[i], "payload_fails")
    /\ call' = [call EXCEPT ![i] = PayloadFailed(@)]
    /\ UNCHANGED <<now, environ, ctor_args, ctor_exc, env_consulted, loader, api_error>>

\* what the create step does with response r of POST /transcriptions; on
\* success the poll loop's start_time is read
Created(c, r) ==
    LET s == [Sent(c, "create", None, r) EXCEPT
                !.payload = prepare_create_payload(loader, c.file_id).payload]
    IN  IF StepExc(r) /= NoExc THEN Raise(s, StepExc(r))
        ELSE [s EXCEPT !.transcription_id = r.id, !.start_time = now,
                       !.seen = Append(@, status_metadata(r)),
                       !.pc = "poll"]

\* POST /transcriptions and the handling of its response
Create(i) ==
    /\ CanStep(call[i], "create")
    /\ \E r \in CreateResponses : call' = [call EXCEPT ![i] = Created(@, r)]
    /\ UNCHANGED <<now, environ, ctor_args, ctor_exc, env_consulted, loader, api_error>>

\* raise SonioxTimeoutError(...)
DeadlineExceeded(c) == Raise(c, TimeoutExc(loader.timeout_seconds))

\* the deadline check made before the transcript fetch as well
PollTimeout_anywhere(i) ==
    /\ call[i].pc \in {"poll", "fetch"}
    /\ TimedOut(now, call[i].start_time, loader.timeout_seconds)
    /\ call' = [call EXCEPT ![i] = Raise(@, TimeoutExc(loader.timeout_seconds))]
    /\ UNCHANGED <<now, environ, ctor_args, ctor_exc, env_consulted, loader, api_error>>

\* top of a poll iteration with the deadline exceeded
PollTimeout(i) ==
    /\ CanStep(call[i], "timeout")
    /\ call' = [call EXCEPT ![i] = DeadlineExceeded(@)]
    /\ UNCHANGED <<now, environ, ctor_args, ctor_exc, env_consulted, loader, api_error>>

\* Polled with the job deleted as soon as it is seen completed, before the
\* transcript is fetched
Polled_deletes_early(c, r) ==
    LET s == [Sent(c, "poll", c.transcription_id, r) EXCEPT
                !.polls = @ + 1,
                !.all_pending = @ /\ StepExc(r) = NoExc
                                  /\ r.jstatus \in {"queued", "processing"}]
    IN IF StepExc(r) /= NoExc THEN Raise(s, StepExc(r))
       ELSE IF r.jstatus = "completed"
            THEN [s EXCEPT !.final_status = r, !.pc = "fetch",
                           !.log = Append(@, Request("delete_job", c.transcription_id,
                                                     c.headers))]
       ELSE IF StatusExc(r) /= NoExc THEN Raise(s, StatusExc(r))
       ELSE [s EXCEPT !.pc = "sleep"]

\* what a poll iteration does with response r of its status request
Polled(c, r) ==
    LET s == [Sent(c, "poll", c.transcription_id, r) EXCEPT
                !.polls = @ + 1,
                !.seen = IF StepExc(r) = NoExc
                         THEN Append(@, status_metadata(r)) ELSE @,
                !.all_pending = @ /\ StepExc(r) = NoExc
                                  /\ r.jstatus \in {"queued", "processing"}]
    IN IF StepExc(r) /= NoExc THEN Raise(s, StepExc(r))
       ELSE IF r.jstatus = "completed"
            THEN [s EXCEPT !.final_status = r, !.pc = "fetch"]
       ELSE IF StatusExc(r) /= NoExc THEN Raise(s, StatusExc(r))
       ELSE [s EXCEPT !.pc = "sleep"]

\* a poll iteration: the deadline check passes, GET /transcriptions/{id},
\* the handling of its response; the clock advances by d while the request
\* is in flight
Poll(i) ==
    /\ CanStep(call[i], "poll")
    /\ \E r \in PollResponses, d \in 0..MaxDelay :
        /\ now' = now + d
        /\ call' = [call EXCEPT ![i] = Polled(@, r)]
    /\ UNCHANGED <<environ, ctor_args, ctor_exc, env_consulted, loader, api_error>>

\* the inter-poll delay followed by a break out of the loop
Slept_breaks(c) == [c EXCEPT !.pc = "fetch"]

\* time.sleep / asyncio.sleep(polling_interval_seconds)
Slept(c) == [c EXCEPT !.pc = "poll"]

\* the delay with a clock that does not advance
Sleep_frozen_clock(i) ==
    /\ CanStep(call[i], "sleep")
    /\ now' = now
    /\ call' = [call EXCEPT ![i] = Slept(@)]
    /\ UNCHANGED <<environ, ctor_args, ctor_exc, env_consulted, loader, api_error>>

Sleep(i) ==
    /\ CanStep(call[i], "sleep")
    /\ now' = now + loader.polling_interval_seconds
    /\ call' = [call EXCEPT ![i] = Slept(@)]
    /\ UNCHANGED <<environ, ctor_args, ctor_exc, env_consulted, loader, api_error>>

\* Cancel with the cleanup after the try block instead of in a finally
\* clause: the cancellation leaves the generator at once
Cancel_skips_cleanup(i) ==
    /\ call[i].pc = "sleep"
    /\ call[i].mode = "async"
    /\ call' = [call EXCEPT ![i] =
                  [@ EXCEPT !.exc = Exc("CancelledError", <<>>),
                            !.primary = Exc("CancelledError", <<>>),
                            !.pc = "exit"]]
    /\ UNCHANGED <<now, environ, ctor_args, ctor_exc, env_consulted, loader, api_error>>

\* the task running alazy_load is cancelled while it is suspended in
\* `await asyncio.sleep(...)`: CancelledError is raised at the await
Cancel(i) ==
    /\ call[i].pc = "sleep"
    /\ call[i].mode = "async"
    /\ call' = [call EXCEPT ![i] = Raise(@, Exc("CancelledError", <<>>))]
    /\ UNCHANGED <<now, environ, ctor_args, ctor_exc, env_consulted, loader, api_error>>

\* the document built with what the create response carried
Fetched_create_status(c, r) ==
    LET s == Sent(c, "fetch", c.transcription_id, r)
    IN  IF StepExc(r) /= NoExc THEN Raise(s, StepExc(r))
        ELSE [s EXCEPT
                !.docs = Append(@, create_document(loader, r, c.seen[1],
                                                   c.transcription_id)),
                !.pc = "yielded"]

\* what the fetch step does with response r of
\* GET /transcriptions/{id}/transcript, up to the yield of the document
Fetched(c, r) ==
    LET s == Sent(c, "fetch", c.transcription_id, r)
    IN  IF StepExc(r) /= NoExc THEN Raise(s, StepExc(r))
        ELSE [s EXCEPT
                !.docs = Append(@, create_document(loader, r, c.final_status,
                                                   c.transcription_id)),
                !.pc = "yielded"]

\* the fetch followed by the job delete before the document is yielded
FetchOf_deletes_first(i, Rs) ==
    /\ CanStep(call[i], "fetch")
    /\ \E r \in Rs :
        call' = [call EXCEPT ![i] =
                    IF StepExc(r) /= NoExc THEN Fetched(@, r)
                    ELSE [Fetched(@, r) EXCEPT
                            !.log = Append(@, Request("delete_job",
                                                      call[i].transcription_id,
                                                      call[i].headers))]]
    /\ UNCHANGED <<now, environ, ctor_args, ctor_exc, env_consulted, loader, api_error>>

\* GET /transcriptions/{id}/transcript, the handling of its response, and
\* the yield of the document
FetchOf(i, Rs) ==
    /\ CanStep(call[i], "fetch")
    /\ \E r \in Rs : call' = [call EXCEPT ![i] = Fetched(@, r)]
    /\ UNCHANGED <<now, environ, ctor_args, ctor_exc, env_consulted, loader, api_error>>

\* the fetch answered as the test suite's service answers it, or refused
Fetch(i) == FetchOf(i, CannedTranscripts)

\* the consumer asks for the next item: the generator leaves the yield and
\* falls into the finally clause
Resumed(c) == [c EXCEPT !.pc = "delete_job"]

Resume(i) ==
    /\ CanStep(call[i], "resume")
    /\ call' = [call EXCEPT ![i] = Resumed(@)]
    /\ UNCHANGED <<now, environ, ctor_args, ctor_exc, env_consulted, loader, api_error>>

\* the consumer closes the generator at the yield: the finally clause runs
Closed(c) == [c EXCEPT !.pc = "delete_job", !.closed = TRUE]

CloseGen(i) ==
    /\ CanStep(call[i], "close")
    /\ call' = [call EXCEPT ![i] = Closed(@)]
    /\ UNCHANGED <<now, environ, ctor_args, ctor_exc, env_consulted, loader, api_error>>

\* the job delete sent without the headers
JobDeleted_no_headers(c, r) ==
    IF Truthy(c.transcription_id)
    THEN [c EXCEPT !.log = Append(@, Request("delete_job", c.transcription_id,
                                             NoHeaders)),
                   !.job_delete = r,
                   !.exc = AfterDelete(@, r),
                   !.pc = "delete_file"]
    ELSE [c EXCEPT !.pc = "delete_file"]

\* cleanup, first half: DELETE /transcriptions/{id} if transcription_id,
\* answered with r
JobDeleted(c, r) ==
    IF Truthy(c.transcription_id)
    THEN [c EXCEPT !.log = Append(@, Request("delete_job", c.transcription_id,
                                             c.headers)),
                   !.job_delete = r,
                   !.exc = AfterDelete(@, r),
                   !.pc = "delete_file"]
    ELSE [c EXCEPT !.pc = "delete_file"]

\* DeleteJob with one try block around both deletes: a job delete that
\* raises ends the cleanup
DeleteJob_one_try(i) ==
    /\ CanStep(call[i], "delete_job")
    /\ \E r \in DeleteResponses :
        call' = [call EXCEPT ![i] =
                    IF r.raised /\ Truthy(@.transcription_id)
                    THEN [JobDeleted(@, r) EXCEPT !.pc = "exit"]
                    ELSE JobDeleted(@, r)]
    /\ UNCHANGED <<now, environ, ctor_args, ctor_exc, env_consulted, loader, api_error>>

\* cleanup, first half: DELETE /transcriptions/{id} if transcription_id
DeleteJob(i) ==
    /\ CanStep(call[i], "delete_job")
    /\ \E r \in DeleteResponses : call' = [call EXCEPT ![i] = JobDeleted(@, r)]
    /\ UNCHANGED <<now, environ, ctor_args, ctor_exc, env_consulted, loader, api_error>>

\* the file delete naming the file id kept where the invocations share it:
\* the id the latest upload stored
FileDeleted_shared_id(c, r) ==
    LET shared == IF Truthy(call[2].file_id) THEN call[2].file_id ELSE c.file_id
    IN  IF Truthy(shared)
        THEN [c EXCEPT !.log = Append(@, Request("delete_file", shared, c.headers)),
                       !.file_delete = r,
                       !.exc = AfterDelete(@, r),
                       !.pc = "exit"]
        ELSE [c EXCEPT !.pc = "exit"]

\* the exception that ends a blocked call from outside: the cancellation of
\* the task (asyncio.CancelledError), Ctrl-C in the blocking path
\* (KeyboardInterrupt). Neither derives from Exception
Interruption(m) ==
    Exc(IF m = "async" THEN "CancelledError" ELSE "KeyboardInterrupt", <<>>)

\* cleanup, first half, interrupted: the job delete is under way when the
\* interruption is raised in it; `except Exception` does not catch it, so it
\* leaves the finally clause at once, in place of the pending exception
JobDeleteInterrupted(c) ==
    [c EXCEPT !.log = Append(@, Request("delete_job", c.transcription_id,
                                        c.headers)),
              !.job_delete = Raised,
              !.interrupted = TRUE,
              !.exc = Interruption(c.mode),
              !.pc = "exit"]

InterruptJobDelete(i) ==
    /\ call[i].pc = "delete_job"
    /\ Truthy(call[i].transcription_id)
    /\ call' = [call EXCEPT ![i] = JobDeleteInterrupted(@)]
    /\ UNCHANGED <<now, environ, ctor_args, ctor_exc, env_consulted, loader, api_error>>

\* cleanup, second half: DELETE /files/{id} if file_id, answered with r
FileDeleted(c, r) ==
    IF Truthy(c.file_id)
    THEN [c EXCEPT !.log = Append(@, Request("delete_file", c.file_id, c.headers)),
                   !.file_delete = r,
                   !.exc = AfterDelete(@, r),
                   !.pc = "exit"]
    ELSE [c EXCEPT !.pc = "exit"]

\* DeleteFile with the file delete forgotten
DeleteFile_forgotten(i) ==
    /\ call[i].pc = "delete_file"
    /\ call' = [call EXCEPT ![i].pc = "exit"]
    /\ UNCHANGED <<now, environ, ctor_args, ctor_exc, env_consulted, loader, api_error>>

\* cleanup, second half: DELETE /files/{id} if file_id
DeleteFile(i) ==
    /\ CanStep(call[i], "delete_file")
    /\ \E r \in DeleteResponses : call' = [call EXCEPT ![i] = FileDeleted(@, r)]
    /\ UNCHANGED <<now, environ, ctor_args, ctor_exc, env_consulted, loader, api_error>>

\* the invocation ending with its session left open
Exited_leaks(c) == [c EXCEPT !.outcome = c.exc, !.pc = "done"]

\* the session is closed and the invocation ends: normally, or with the
\* pending exception reaching the caller
Exited(c) == [c EXCEPT !.session = "closed", !.outcome = c.exc, !.pc = "done"]

Exit(i) ==
    /\ CanStep(call[i], "exit")
    /\ call' = [call EXCEPT ![i] = Exited(@)]
    /\ UNCHANGED <<now, environ, ctor_args, ctor_exc, env_consulted, loader, api_error>>

Step(i) ==
    \/ \E m \in Modes : Start(i, m)
    \/ UploadOpenFails(i)
    \/ Upload(i)
    \/ CreatePayloadFails(i)
    \/ Create(i)
    \/ PollTimeout(i)
    \/ Poll(i)
    \/ Sleep(i)
    \/ Cancel(i)
    \/ Fetch(i)
    \/ Resume(i)
    \/ CloseGen(i)
    \/ DeleteJob(i)
    \/ DeleteFile(i)
    \/ Exit(i)

\* construction alone, over every argument and environment
NextInit == Construct(CtorArgs)

SpecInit == Init /\ [][NextInit]_vars

\* one loader, with SONIOX_API_KEY set, and one invocation on it
InitRun == Init /\ environ = "env_key"

Next == Construct(RunArgs) \/ Step(1)

Spec == InitRun /\ [][Next]_vars

\* the construction calls followed where the content of the transcript is
\* what varies: every source, one key, one base URL, no waiting
DocArgs ==
    {a \in RunArgs : /\ a.api_key = "test_key"
                     /\ a.base_url /= None
                     /\ a.timeout_seconds = 0
                     /\ a.polling_interval_seconds = 0}

\* one invocation whose fetch is answered with any transcript
NextDoc == Construct(DocArgs) \/ Step(1) \/ FetchOf(1, TranscriptResponses)

SpecDoc == InitRun /\ [][NextDoc]_vars

\* the construction calls followed where the options are what varies: every
\* source and options object, one key, one base URL, no waiting
PayloadArgs ==
    {a \in CtorArgs : /\ a.api_key = "test_key"
                      /\ a.base_url /= None
                      /\ a.timeout_seconds = 0
                      /\ a.polling_interval_seconds = 0}

\* one invocation up to the answer to its create request
NextPayload ==
    \/ Construct(PayloadArgs)
    \/ \E m \in Modes : Start(1, m)
    \/ UploadOpenFails(1)
    \/ Upload(1)
    \/ CreatePayloadFails(1)
    \/ Create(1)

SpecPayload == InitRun /\ [][NextPayload]_vars

\* invocation state c after step k of lazy_load (m = "sync") or alazy_load
\* (m = "async"), r being the answer to the step's request
Stepped(c, m, k, r) ==
    CASE k = "start" -> Started(c, m)
      [] k = "open_fails" -> OpenFailed(c)
      [] k = "upload" -> Uploaded(c, r)
      [] k = "payload_fails" -> PayloadFailed(c)
      [] k = "create" -> Created(c, r)
      [] k = "timeout" -> DeadlineExceeded(c)
      [] k = "poll" -> Polled(c, r)
      [] k = "sleep" -> Slept(c)
      [] k = "fetch" -> Fetched(c, r)
      [] k = "resume" -> Resumed(c)
      [] k = "close" -> Closed(c)
      [] k = "delete_job" -> JobDeleted(c, r)
      [] k = "delete_file" -> FileDeleted(c, r)
      [] k = "exit" -> Exited(c)

\* the answers the request of step k can get
Responses(k) ==
    CASE k = "upload" -> UploadResponses
      [] k = "create" -> CreateResponses
      [] k = "poll" -> PollResponses
      [] k = "fetch" -> CannedTranscripts
      [] k \in {"delete_job", "delete_file"} -> DeleteResponses
      [] OTHER -> {NoResp}

\* the time step k can take: a status request's time in flight, the
\* time.sleep / asyncio.sleep of the polling interval
Delays(k) ==
    CASE k = "poll" -> 0..MaxDelay
      [] k = "sleep" -> {loader.polling_interval_seconds}
      [] OTHER -> {0}

\* lazy_load (invocation 1) and alazy_load (invocation 2) on the same loader,
\* step by step against the same service: both take the same step, get the
\* same answer and read the same clock
PairStep ==
    \E k \in Moves :
        /\ CanStep(call[1], k)
        /\ CanStep(call[2], k)
        /\ \E r \in Responses(k), d \in Delays(k) :
            /\ call' = [call EXCEPT ![1] = Stepped(@, "sync", k, r),
                                    ![2] = Stepped(@, "async", k, r)]
            /\ now' = now + d
        /\ UNCHANGED <<environ, ctor_args, ctor_exc, env_consulted, loader, api_error>>

NextPair == Construct(RunArgs) \/ PairStep

SpecPair == InitRun /\ [][NextPair]_vars

\* the ids the service hands to invocation i: a file and a job of its own
OwnFileId(i) == IF i = 1 THEN "file_123" ELSE "file_789"
OwnJobId(i) == IF i = 1 THEN "trans_456" ELSE "trans_012"

\* the answers the request of step k of invocation i can get, where the
\* service gives every invocation its own ids
OwnResponses(i, k) ==
    CASE k = "upload" -> {Http(200, TRUE, OwnFileId(i), None, None)}
      [] k = "create" -> {Raised, Http(200, TRUE, OwnJobId(i), "queued", None)}
      [] k = "poll" -> {Http(200, TRUE, OwnJobId(i), js, None) :
                           js \in {"processing", "completed", "error"}}
      [] k = "fetch" -> {Http(500, FALSE, None, None, None),
                         Transcript(200, "Hello world",
                                    <<[text |-> "Hello", speaker |-> Absent]>>)}
      [] k \in {"delete_job", "delete_file"} ->
            {Raised, Http(200, FALSE, None, None, None)}
      [] OTHER -> {NoResp}

\* how the two invocations are made: alazy_load for the first, lazy_load for
\* the second
OwnMode(i) == IF i = 1 THEN "async" ELSE "sync"

\* the construction calls followed where two invocations share the loader:
\* a path or a URL, one key, one base URL, the shortest timeout, no delay
\* between polls
TwoArgs ==
    {a \in RunArgs : /\ a.api_key = "test_key"
                     /\ a.base_url /= None
                     /\ a.file_data = None
                     /\ <<a.file_path, a.file_url>> \in
                          {<<"audio/test.mp3", None>>,
                           <<None, "https://example.com/a.mp3">>}
                     /\ a.timeout_seconds = 0
                     /\ a.polling_interval_seconds = 0}

\* one step of invocation i, the other invocation suspended where it is
OwnStep(i) ==
    \E k \in Moves :
        /\ CanStep(call[i], k)
        /\ \E r \in OwnResponses(i, k), d \in Delays(k) :
            /\ call' = [call EXCEPT ![i] = Stepped(@, OwnMode(i), k, r)]
            /\ now' = now + d
        /\ UNCHANGED <<environ, ctor_args, ctor_exc, env_consulted, loader, api_error>>

\* two invocations on the same loader, interleaved in every way
NextTwo ==
    \/ Construct(TwoArgs)
    \/ \E i \in Invocations : OwnStep(i)
    \/ \E i \in Invocations : Cancel(i)

SpecTwo == InitRun /\ [][NextTwo]_vars

\* the answers the request of step k can get where the job's
\* audio_duration_ms, model and created_at are what varies from response to
\* response
MetaResponses(k) ==
    CASE k = "create" ->
            {WithMeta(Http(200, TRUE, "trans_456", "queued", None), m) : m \in Metas}
      [] k = "poll" ->
            {Http(500, FALSE, None, None, None)}
            \cup {WithMeta(Http(200, TRUE, "trans_456", js, None), m) :
                    js \in {"processing", "completed"}, m \in Metas}
      [] k = "fetch" -> {Transcript(200, "Hello world", <<>>)}
      [] k \in {"delete_job", "delete_file"} -> {Http(200, FALSE, None, None, None)}
      [] OTHER -> {NoResp}

\* the construction calls followed there: a URL, one key, one base URL, the
\* shortest timeout, no delay between polls
MetaArgs ==
    {a \in RunArgs : /\ a.api_key = "test_key"
                     /\ a.base_url /= None
                     /\ a.file_url = "https://example.com/a.mp3"
                     /\ a.timeout_seconds = 0
                     /\ a.polling_interval_seconds = 0}

\* one step of invocation 1 against that service
MetaStep ==
    \E k \in Moves :
        /\ CanStep(call[1], k)
        /\ \E m \in IF k = "start" THEN Modes ELSE {call[1].mode},
              r \in MetaResponses(k) :
            call' = [call EXCEPT ![1] = Stepped(@, m, k, r)]
        /\ UNCHANGED <<now, environ, ctor_args, ctor_exc, env_consulted, loader, api_error>>

NextMeta == Construct(MetaArgs) \/ MetaStep

SpecMeta == InitRun /\ [][NextMeta]_vars

\* the construction calls followed where the cleanup is what matters: every
\* source, one key, one base URL, the shortest timeout, no delay between polls
CleanupArgs ==
    {a \in RunArgs : /\ a.api_key = "test_key"
                     /\ a.base_url /= None
                     /\ a.timeout_seconds = 0
                     /\ a.polling_interval_seconds = 0}

\* one invocation whose job delete can be interrupted
NextCleanup == Construct(CleanupArgs) \/ Step(1) \/ InterruptJobDelete(1)

SpecCleanup == InitRun /\ [][NextCleanup]_vars

\* the construction calls followed where termination is what matters: every
\* source, base URL and timeout, a polling interval that is positive
LiveArgs ==
    {a \in RunArgs : a.api_key = "test_key" /\ a.polling_interval_seconds > 0}

NextLive == Construct(LiveArgs) \/ Step(1)

\* one invocation that is not left waiting: every request gets its answer
\* (or raises), each sleep ends, and the consumer that was handed the document
\* asks for the next item or closes the generator
SpecLive == InitRun /\ [][NextLive]_vars /\ WF_vars(Step(1))

\* the answers the request of step k can get where the ids are what varies:
\* the upload and the create response name one of two ids, the status and
\* transcript responses carry the id of the job or another one
IdResponses(k) ==
    CASE k = "upload" ->
            {Http(200, TRUE, f, None, None) : f \in {"file_123", "file_789"}}
      [] k = "create" ->
            {Http(200, TRUE, t, "queued", None) : t \in {"trans_456", "trans_789"}}
      [] k = "poll" ->
            {Http(500, FALSE, None, None, None)}
            \cup {Http(200, TRUE, t, js, None) :
                    t \in {"trans_456", "trans_000"},
                    js \in {"processing", "completed"}}
      [] k = "fetch" ->
            {[Transcript(200, "Hello world", <<>>) EXCEPT !.id = t] :
                t \in {"trans_456", "trans_000"}}
      [] k \in {"delete_job", "delete_file"} -> {Http(200, FALSE, None, None, None)}
      [] OTHER -> {NoResp}

\* the construction calls followed there: a path or a URL, one key, one base
\* URL, the shortest timeout, no delay between polls
IdArgs == TwoArgs

\* one step of invocation 1 against that service
IdStep ==
    \E k \in Moves :
        /\ CanStep(call[1], k)
        /\ \E m \in IF k = "start" THEN Modes ELSE {call[1].mode},
              r \in IdResponses(k) :
            call' = [call EXCEPT ![1] = Stepped(@, m, k, r)]
        /\ UNCHANGED <<now, environ, ctor_args, ctor_exc, env_consulted, loader, api_error>>

NextIds == Construct(IdArgs) \/ IdStep

SpecIds == InitRun /\ [][NextIds]_vars

\* raise SonioxAPIError(resp) for an error response
BuildError ==
    /\ api_error = NotBuilt
    /\ \E response \in ErrorResponses :
        api_error' = [built |-> TRUE, response |-> response,
                      error |-> SonioxAPIError_init(response)]
    /\ UNCHANGED <<now, call, environ, ctor_args, ctor_exc, env_consulted, loader>>

\* SonioxAPIError alone, over every error response
NextError == BuildError

SpecError == InitRun /\ [][NextError]_vars

\* ========================================================================
\* Properties
\* ========================================================================

Done(i) == call[i].pc = "done"

\* the requests of kind k invocation i has issued
Issued(i, k) == {n \in DOMAIN call[i].log : call[i].log[n].req = k}

StepKinds == {"upload", "create", "poll", "fetch"}
DeleteKinds == {"delete_job", "delete_file"}

\* the number of audio sources a construction call provides
SourcesGiven(a) ==
    Cardinality({f \in {"file_path", "file_data", "file_url"} : a[f] /= None})

\* no API key is resolvable: no api_key argument or an empty one, and no
\* SONIOX_API_KEY value in the environment
NoKey(a, env) == a.api_key \in {None, ""} /\ env \in {None, ""}

NoRequests == \A i \in Invocations : call[i].log = <<>>

\* an id obtained from a response, and one that is also not empty
Obtained(id) == id /= None
NonEmpty(id) == id /= None /\ id /= ""

\* the deletes invocation i has issued
Deletes(i) == Issued(i, "delete_job") \cup Issued(i, "delete_file")

\* a delete that was issued and failed: the request raised, or was answered
\* with a status outside 2xx
FailedDelete(r) == r /= NoResp /\ (r.raised \/ r.status < 200 \/ r.status > 299)

\* the cleanup has made every delete it makes
CleanupRan(i) ==
    /\ NonEmpty(call[i].transcription_id) => Issued(i, "delete_job") /= {}
    /\ NonEmpty(call[i].file_id) => Issued(i, "delete_file") /= {}

\* a step of invocation i failed in the specification's sense: a response with a
\* status outside 2xx, or an exception (transport error, invalid body, error
\* status, timeout, configuration error) left the try block
StepFailed(i) == call[i].non2xx \/ call[i].primary /= NoExc

\* ------------------------------------------------------------------------
\* C1 (as claimed): an invocation run to its end yields exactly one document
\* when every step succeeded, and when a step failed (non-2xx response, error
\* status, timeout, configuration error) yields no document and ends with the
\* failure, which reaches the caller after the cleanup deletes.
C1_OneDocumentOrFailure ==
    \A i \in Invocations :
        /\ Done(i) =>
             IF StepFailed(i)
             THEN Len(call[i].docs) = 0 /\ call[i].outcome /= NoExc
             ELSE Len(call[i].docs) = 1 /\ call[i].outcome = NoExc
        /\ call[i].outcome /= NoExc => CleanupRan(i)

\* ------------------------------------------------------------------------
\* C2 (as claimed): when an invocation that opened its session has ended, the
\* job delete has been issued iff a job id was obtained from the create step,
\* and the file delete iff a file id was obtained from the upload step.
C2_DeletesIffIdObtained ==
    \A i \in Invocations :
        (Done(i) /\ call[i].session /= "none") =>
            /\ Issued(i, "delete_job") /= {} <=> Obtained(call[i].transcription_id)
            /\ Issued(i, "delete_file") /= {} <=> Obtained(call[i].file_id)

\* C2 (amended): when an invocation that opened its session has ended, the
\* job delete has been issued iff a non-empty job id was obtained from the
\* create step, and the file delete iff a non-empty file id was obtained
\* from the upload step.
C2_DeletesIffIdNonEmpty ==
    \A i \in Invocations :
        (Done(i) /\ call[i].session /= "none") =>
            /\ Issued(i, "delete_job") /= {} <=> NonEmpty(call[i].transcription_id)
            /\ Issued(i, "delete_file") /= {} <=> NonEmpty(call[i].file_id)

\* a failed create after a successful upload: the file delete only
C2_Witness ==
    /\ Done(1)
    /\ call[1].file_id = "file_123"
    /\ call[1].transcription_id = None
    /\ call[1].outcome.kind = "SonioxAPIError"
    /\ Issued(1, "delete_file") /= {}
    /\ Issued(1, "delete_job") = {}

C4_Non2xxRaisesAPIError ==
    \A i \in Invocations :
        (call[i].resp /= NoResp /\ ~call[i].resp.raised
            /\ (call[i].resp.status < 200 \/ call[i].resp.status > 299))
            => /\ call[i].primary.kind = "SonioxAPIError"
               /\ call[i].primary.status_code = call[i].resp.status
               /\ call[i].pc \in {"delete_job", "delete_file", "exit", "done"}

\* ------------------------------------------------------------------------
\* the last status poll was answered with a validated body of status error
ErrorStatusPolled(i) ==
    /\ ~call[i].resp.raised
    /\ call[i].resp.valid
    /\ call[i].resp.jstatus = "error"

\* the failure C5 describes, for the ids for which both deletes are claimed
ErrorStatusFailure(i, both) ==
    /\ call[i].outcome.kind = "SonioxTranscriptionFailedError"
    /\ \E n \in DOMAIN call[i].outcome.message :
         call[i].outcome.message[n] = call[i].resp.error_message
    /\ Issued(i, "fetch") = {}
    /\ Len(call[i].docs) = 0
    /\ both => /\ Cardinality(Issued(i, "delete_job")) = 1
               /\ Cardinality(Issued(i, "delete_file")) = 1

\* C5 (as claimed): when a status poll returns status error with message X
\* the invocation fails with SonioxTranscriptionFailedError whose message
\* contains X, no transcript fetch is issued, and when both a job and a file
\* were created each of the two deletes is issued exactly once.
C5_ErrorStatus ==
    \A i \in Invocations :
        (Done(i) /\ ErrorStatusPolled(i))
            => ErrorStatusFailure(i, Obtained(call[i].transcription_id)
                                     /\ Obtained(call[i].file_id))

\* C5 (amended): as C5, the two deletes being issued exactly once each when
\* a file id and a non-empty job id were obtained.
C5_ErrorStatusNonEmpty ==
    \A i \in Invocations :
        (Done(i) /\ ErrorStatusPolled(i))
            => ErrorStatusFailure(i, NonEmpty(call[i].transcription_id)
                                     /\ NonEmpty(call[i].file_id))

\* an uploaded file whose job ends in error status with a message
C5_Witness ==
    /\ Done(1)
    /\ call[1].resp.jstatus = "error"
    /\ call[1].resp.error_message = "Audio format not supported"
    /\ call[1].file_id = "file_123"
    /\ call[1].transcription_id = "trans_456"
    /\ call[1].outcome.kind = "SonioxTranscriptionFailedError"
    /\ Cardinality(Deletes(1)) = 2

\* ------------------------------------------------------------------------
\* the poll loop was entered, every status poll was answered queued or
\* processing, and the task was not cancelled while it waited
OnlyPending(i) ==
    /\ Obtained(call[i].transcription_id)
    /\ call[i].all_pending
    /\ call[i].primary.kind /= "CancelledError"

\* C6 (as claimed): an invocation whose status polls all return a
\* non-terminal status ends, once the clock has passed timeout_seconds, with
\* SonioxTimeoutError (not SonioxTranscriptionFailedError), no document, and
\* the job delete and, for an uploaded source, the file delete issued.
C6_Timeout ==
    \A i \in Invocations :
        (Done(i) /\ OnlyPending(i))
            => /\ call[i].outcome.kind = "SonioxTimeoutError"
               /\ now - call[i].start_time > loader.timeout_seconds
               /\ Len(call[i].docs) = 0
               /\ Issued(i, "delete_job") /= {}
               /\ Obtained(call[i].file_id) => Issued(i, "delete_file") /= {}

\* C6 (amended): as C6, the job delete being issued when the job id is not
\* empty.
C6_TimeoutNonEmpty ==
    \A i \in Invocations :
        (Done(i) /\ OnlyPending(i))
            => /\ call[i].outcome.kind = "SonioxTimeoutError"
               /\ now - call[i].start_time > loader.timeout_seconds
               /\ Len(call[i].docs) = 0
               /\ NonEmpty(call[i].transcription_id) => Issued(i, "delete_job") /= {}
               /\ Obtained(call[i].file_id) => Issued(i, "delete_file") /= {}

\* two polls answered processing, then the deadline check fails; the job and
\* the uploaded file are deleted
C6_Witness ==
    /\ Done(1)
    /\ OnlyPending(1)
    /\ call[1].polls = 2
    /\ call[1].resp.jstatus = "processing"
    /\ call[1].outcome.kind = "SonioxTimeoutError"
    /\ Issued(1, "delete_job") /= {}
    /\ Issued(1, "delete_file") /= {}

\* ------------------------------------------------------------------------
\* the delete requests C7 describes for an ended invocation
DeleteCount(i) ==
    IF loader.file_url /= None
    THEN /\ Cardinality(Deletes(i)) = 1
         /\ Cardinality(Issued(i, "delete_job")) = 1
    ELSE /\ Cardinality(Deletes(i)) = 2
         /\ Cardinality(Issued(i, "delete_job")) = 1
         /\ Cardinality(Issued(i, "delete_file")) = 1

\* C7 (as claimed): an ended invocation in which the job was created has
\* issued exactly one delete (the job delete) with a file-url source, and
\* exactly two (one job delete, one file delete) with a file-path or
\* file-data source.
C7_DeleteCount ==
    \A i \in Invocations :
        (Done(i) /\ Obtained(call[i].transcription_id)) => DeleteCount(i)

\* C7 (amended): as C7, for the invocations in which the job was created
\* with a non-empty id.
C7_DeleteCountNonEmpty ==
    \A i \in Invocations :
        (Done(i) /\ NonEmpty(call[i].transcription_id)) => DeleteCount(i)

\* a file-data source whose transcript fetch failed: two deletes
C7_Witness ==
    /\ Done(1)
    /\ loader.file_data = "data"
    /\ call[1].transcription_id = "trans_456"
    /\ Issued(1, "fetch") /= {}
    /\ call[1].outcome /= NoExc
    /\ Cardinality(Issued(1, "delete_job")) = 1
    /\ Cardinality(Issued(1, "delete_file")) = 1

\* ------------------------------------------------------------------------
\* C8: a construction call that provides zero, two or three of file_path,
\* file_data, file_url fails with SonioxClientError whatever the other
\* arguments are, before the API key is resolved (the environment is not
\* looked up), and no request is issued.
C8_SourceCountChecked ==
    (ctor_args /= NotCalled /\ SourcesGiven(ctor_args) /= 1)
        => /\ ctor_exc.kind = "SonioxClientError"
           /\ ~env_consulted
           /\ loader = NoLoader
           /\ NoRequests

\* two sources (one of them empty bytes) and no key anywhere: the source
\* count error is the one raised
C8_Witness ==
    /\ ctor_args /= NotCalled
    /\ ctor_args.file_path = "audio/test.mp3"
    /\ ctor_args.file_data = ""
    /\ ctor_args.file_url = None
    /\ NoKey(ctor_args, environ)
    /\ ctor_exc.kind = "SonioxClientError"

\* ------------------------------------------------------------------------
\* C9 (as claimed): a construction call for which no API key is resolvable
\* fails with SonioxClientError.
C9_NoKeyIsClientError ==
    (ctor_args /= NotCalled /\ NoKey(ctor_args, environ))
        => ctor_exc.kind = "SonioxClientError"

\* ------------------------------------------------------------------------
\* C10: a construction call with exactly one audio source, no api_key
\* argument and SONIOX_API_KEY unset raises the environment lookup's
\* ValueError, whose message contains 'Did not find api_key'; no loader
\* results.
C10_MissingKeyValueError ==
    (/\ ctor_args /= NotCalled
     /\ SourcesGiven(ctor_args) = 1
     /\ ctor_args.api_key = None
     /\ environ = None)
        => /\ ctor_exc.kind = "ValueError"
           /\ \E n \in DOMAIN ctor_exc.message :
                ctor_exc.message[n] = "Did not find api_key"
           /\ loader = NoLoader

\* SonioxDocumentLoader(file_path="audio/test.mp3") with SONIOX_API_KEY unset
C10_Witness ==
    /\ ctor_args /= NotCalled
    /\ ctor_args.file_path = "audio/test.mp3"
    /\ ctor_args.file_data = None
    /\ ctor_args.file_url = None
    /\ ctor_args.api_key = None
    /\ environ = None
    /\ env_consulted
    /\ ctor_exc.kind = "ValueError"

\* an api_key argument was given: it is neither absent nor empty
KeyGiven(a) == a.api_key /= None /\ a.api_key /= ""

\* C11: the key a constructed loader holds is the api_key argument when one
\* was given (non-empty) and the value of SONIOX_API_KEY otherwise, and the
\* environment is looked up only by calls whose api_key argument is absent
\* or empty.
C11_KeyResolution ==
    ctor_args /= NotCalled =>
        /\ env_consulted => ~KeyGiven(ctor_args)
        /\ loader.constructed =>
            /\ KeyGiven(ctor_args) => loader.api_key = ctor_args.api_key
            /\ ~KeyGiven(ctor_args) => env_consulted /\ loader.api_key = environ

\* a loader built with an empty api_key argument holds the environment's key
C11_Witness ==
    /\ ctor_args /= NotCalled
    /\ loader.constructed
    /\ ctor_args.api_key = ""
    /\ env_consulted
    /\ loader.api_key = "env_key"

\* the source argument a construction call gave
GivenSource(a) == CHOOSE f \in {"file_url", "file_path", "file_data"} : a[f] /= None

\* the document an invocation yielded was built from transcript r: the same
\* text, and one token record per token of r, in r's order, each with the
\* token's text and speaker
DocumentOf(doc, r) ==
    /\ doc.page_content = r.text
    /\ Len(doc.tokens) = Len(r.tokens)
    /\ \A k \in 1..Len(r.tokens) :
        /\ doc.tokens[k].text = r.tokens[k].text
        /\ doc.tokens[k].speaker =
             (IF r.tokens[k].speaker = Absent THEN None ELSE r.tokens[k].speaker)

\* C12: the document of a successful run has the text of the fetched
\* transcript, and its metadata tokens are the transcript's tokens, one
\* record each, in the order the service returned them.
C12_DocumentTextAndTokens ==
    \A i \in Invocations :
        call[i].docs /= <<>> =>
            /\ Len(call[i].docs) = 1
            /\ DocumentOf(call[i].docs[1], call[i].resp)

\* a finished run whose document carries two different tokens in order
C12_Witness ==
    \E i \in Invocations :
        /\ Done(i)
        /\ call[i].outcome = NoExc
        /\ Len(call[i].docs) = 1
        /\ call[i].docs[1].page_content = "Hello world"
        /\ Len(call[i].docs[1].tokens) = 2
        /\ call[i].docs[1].tokens[1].text = "Hello"
        /\ call[i].docs[1].tokens[2].text = "world"

\* C13: the document's metadata source is the URL for a file_url source, the
\* path for a file_path source, and 'file_upload' for in-memory data.
C13_Source ==
    \A i \in Invocations :
        \A k \in DOMAIN call[i].docs :
            call[i].docs[k].source =
                CASE GivenSource(ctor_args) = "file_url" -> ctor_args.file_url
                  [] GivenSource(ctor_args) = "file_path" -> ctor_args.file_path
                  [] GivenSource(ctor_args) = "file_data" -> "file_upload"

\* a document was yielded for in-memory data
C13_Witness ==
    \E i \in Invocations :
        /\ Len(call[i].docs) = 1
        /\ ctor_args.file_data = "data"
        /\ call[i].docs[1].source = "file_upload"

\* the create request of invocation i has been sent
CreateSent(i) == Issued(i, "create") /= {}

\* the options object the caller passed, with the defaults when none was
\* passed
CallerOptions ==
    IF DOMAIN ctor_args.options = {}
    THEN [f \in OptionFields |-> IF f = "model" THEN "stt-async-v4" ELSE None]
    ELSE ctor_args.options

\* C14: in the payload of a create request, an option field the caller left
\* unset is not a key (so never a key with a null value), an option field
\* the caller set is a key with the caller's value, and model is always a
\* key: the caller's value or the default "stt-async-v4".
C14_PayloadExcludesUnset ==
    \A i \in Invocations :
        CreateSent(i) =>
            /\ \A f \in OptionFields \ {"model"} :
                /\ CallerOptions[f] = None => f \notin DOMAIN call[i].payload
                /\ CallerOptions[f] /= None =>
                    /\ f \in DOMAIN call[i].payload
                    /\ call[i].payload[f] = CallerOptions[f]
            /\ "model" \in DOMAIN call[i].payload
            /\ call[i].payload["model"] = CallerOptions["model"]
            /\ \A f \in DOMAIN call[i].payload : call[i].payload[f] /= None

\* a payload was sent for options with a flag set to False, an empty
\* reference id and no model chosen
C14_Witness ==
    \E i \in Invocations :
        /\ CreateSent(i)
        /\ DOMAIN ctor_args.options = OptionFields
        /\ ctor_args.options["enable_speaker_diarization"] = "False"
        /\ ctor_args.options["client_reference_id"] = ""
        /\ call[i].payload["model"] = "stt-async-v4"
        /\ call[i].payload["enable_speaker_diarization"] = "False"

\* a second witness state of C14: an unset flag is no key of the payload
C14_WitnessUnset ==
    \E i \in Invocations :
        /\ CreateSent(i)
        /\ DOMAIN ctor_args.options = OptionFields
        /\ ctor_args.options["enable_speaker_diarization"] = None
        /\ "enable_speaker_diarization" \notin DOMAIN call[i].payload

\* C15 (as claimed): every create payload that is sent has exactly one of
\* audio_url and file_id: audio_url, equal to the given URL, for a URL
\* source, and file_id, equal to the id the upload returned, otherwise;
\* whatever options object the loader was constructed with.
C15_ExactlyOneSource ==
    \A i \in Invocations :
        CreateSent(i) =>
            IF ctor_args.file_url /= None
            THEN /\ "audio_url" \in DOMAIN call[i].payload
                 /\ call[i].payload["audio_url"] = ctor_args.file_url
                 /\ "file_id" \notin DOMAIN call[i].payload
            ELSE /\ "file_id" \in DOMAIN call[i].payload
                 /\ call[i].payload["file_id"] = call[i].file_id
                 /\ "audio_url" \notin DOMAIN call[i].payload

\* C15 for the options objects that carry no source field of their own
C15_PlainOptions ==
    \A i \in Invocations :
        (CreateSent(i) /\ DOMAIN ctor_args.options \cap SourceFields = {}) =>
            IF ctor_args.file_url /= None
            THEN /\ "audio_url" \in DOMAIN call[i].payload
                 /\ call[i].payload["audio_url"] = ctor_args.file_url
                 /\ "file_id" \notin DOMAIN call[i].payload
            ELSE /\ "file_id" \in DOMAIN call[i].payload
                 /\ call[i].payload["file_id"] = call[i].file_id
                 /\ "audio_url" \notin DOMAIN call[i].payload

\* invocation i is at the top of a poll iteration
AtIterationTop(i) == call[i].pc = "poll"

\* the time elapsed since invocation i read start_time
Elapsed(i) == now - call[i].start_time

\* this step raises the timeout in invocation i
TimeoutRaised(i) ==
    /\ call[i].primary.kind /= "SonioxTimeoutError"
    /\ call'[i].primary.kind = "SonioxTimeoutError"

\* this step issues a status poll in invocation i
PollIssued(i) ==
    /\ Len(call'[i].log) = Len(call[i].log) + 1
    /\ call'[i].log[Len(call'[i].log)].req = "poll"

\* C18: at the top of a poll iteration with the elapsed time exactly
\* timeout_seconds, the step the invocation takes is a status poll and not
\* the timeout; the timeout is raised only with the elapsed time strictly
\* greater than timeout_seconds.
C18_TimeoutExclusive ==
    [][\A i \in Invocations :
        /\ (AtIterationTop(i) /\ Elapsed(i) = loader.timeout_seconds
                /\ call'[i] /= call[i])
             => PollIssued(i) /\ ~TimeoutRaised(i)
        /\ TimeoutRaised(i) => Elapsed(i) > loader.timeout_seconds]_vars

\* the second poll was issued with the elapsed time equal to the timeout:
\* timeout 1, first poll answered at once, then a delay of 1
C18_Witness ==
    \E i \in Invocations :
        /\ loader.constructed
        /\ loader.timeout_seconds = 1
        /\ loader.polling_interval_seconds = 1
        /\ call[i].polls = 2
        /\ Elapsed(i) = 1

\* a response that is a 200 with a body that validates
Ok200(r) == ~r.raised /\ r.status = 200 /\ r.valid

\* this step issues the transcript fetch in invocation i
FetchIssued(i) ==
    /\ Len(call'[i].log) = Len(call[i].log) + 1
    /\ call'[i].log[Len(call'[i].log)].req = "fetch"

\* the requests this step adds to the log of invocation i
NewRequests(i) ==
    {call'[i].log[n].req : n \in DOMAIN call'[i].log \ DOMAIN call[i].log}

\* C19: the deadline is checked at the top of a poll iteration, before that
\* iteration's status request, and nowhere else. The timeout is raised only
\* by a step from the top of an iteration that issues no request; a status
\* poll answered 'completed' goes on to the transcript fetch whatever the
\* clock reads when the answer arrives; the step after that is the fetch,
\* and a fetch answered with a transcript yields the document; once the
\* timeout is raised the invocation issues no status poll and no fetch.
C19_DeadlineCheckedAtIterationTop ==
    [][\A i \in Invocations :
        /\ TimeoutRaised(i) => AtIterationTop(i) /\ NewRequests(i) = {}
        /\ (PollIssued(i) /\ Ok200(call'[i].resp)
                /\ call'[i].resp.jstatus = "completed")
             => call'[i].pc = "fetch"
        /\ (call[i].pc = "fetch" /\ call'[i] /= call[i])
             => /\ FetchIssued(i)
                /\ Ok200(call'[i].resp) => Len(call'[i].docs) = 1
        /\ call[i].primary.kind = "SonioxTimeoutError"
             => NewRequests(i) \subseteq DeleteKinds]_vars

\* a document was yielded although the deadline passed while the completed
\* poll was in flight
C19_Witness ==
    \E i \in Invocations :
        /\ Len(call[i].docs) = 1
        /\ call[i].polls = 1
        /\ Elapsed(i) > loader.timeout_seconds

\* a second witness state of C19: after the timeout, the cleanup has run and
\* the run is over
C19_WitnessTimeout ==
    \E i \in Invocations :
        /\ Done(i)
        /\ call[i].outcome.kind = "SonioxTimeoutError"
        /\ Issued(i, "delete_job") /= {}

\* C20: a construction call with base_url=None that is otherwise valid
\* succeeds; an invocation on such a loader ends at once with
\* SonioxClientError, with no session ever opened, no request and no delete
\* issued, and no document.
C20_BaseUrlCheckedAtLoad ==
    /\ (/\ ctor_args /= NotCalled
        /\ SourcesGiven(ctor_args) = 1
        /\ ~NoKey(ctor_args, environ)
        /\ ctor_args.base_url = None)
         => loader.constructed /\ ctor_exc = NoExc /\ loader.base_url = None
    /\ \A i \in Invocations :
        (loader.constructed /\ loader.base_url = None /\ call[i].pc /= "idle")
            => /\ Done(i)
               /\ call[i].outcome.kind = "SonioxClientError"
               /\ call[i].outcome.message = <<"base_url must be provided.">>
               /\ call[i].session = "none"
               /\ call[i].log = <<>>
               /\ call[i].docs = <<>>

\* a loader built without a base URL was run
C20_Witness ==
    \E i \in Invocations :
        /\ loader.constructed
        /\ ctor_args.base_url = None
        /\ Done(i)
        /\ call[i].outcome.kind = "SonioxClientError"

\* invocation i was cancelled in the inter-poll delay and the cancellation
\* has reached the caller
CancelledOut(i) == Done(i) /\ call[i].outcome.kind = "CancelledError"

\* C17 (as claimed): when alazy_load is cancelled in the inter-poll delay,
\* the job delete, and the file delete when a file was uploaded, have been
\* issued by the time the cancellation reaches the caller.
C17_CancelRunsCleanup ==
    \A i \in Invocations :
        CancelledOut(i) =>
            /\ Issued(i, "delete_job") /= {}
            /\ Obtained(call[i].file_id) => Issued(i, "delete_file") /= {}

\* C17 (amended): as C17, each delete being issued when its id is not empty;
\* and until the cleanup is over the caller has seen nothing.
C17_CancelRunsCleanupNonEmpty ==
    \A i \in Invocations :
        /\ CancelledOut(i) =>
            /\ call[i].mode = "async"
            /\ NonEmpty(call[i].transcription_id) => Issued(i, "delete_job") /= {}
            /\ NonEmpty(call[i].file_id) => Issued(i, "delete_file") /= {}
        /\ (call[i].primary.kind = "CancelledError" /\ ~Done(i))
             => call[i].outcome = NoExc

\* a cancelled run that deleted its job and its uploaded file
C17_Witness ==
    \E i \in Invocations :
        /\ CancelledOut(i)
        /\ call[i].file_id = "file_123"
        /\ call[i].transcription_id = "trans_456"
        /\ call[i].log[Len(call[i].log) - 1].req = "delete_job"
        /\ call[i].log[Len(call[i].log)].req = "delete_file"

\* what the transport and the caller see of an invocation: the requests in
\* order (what, the id in the path, the key), the upload's multipart body,
\* the create payload, the documents yielded, the failure that reached the
\* caller, and whether the invocation is over
Observed(c) ==
    [log |-> c.log, files |-> c.files, payload |-> c.payload, docs |-> c.docs,
     outcome |-> c.outcome, over |-> c.pc = "done", session |-> c.session]

C16_WitnessTimeout ==
    /\ Done(1) /\ Done(2)
    /\ call[1].mode = "sync" /\ call[2].mode = "async"
    /\ call[1].outcome.kind = "SonioxTimeoutError"
    /\ call[2].outcome.kind = "SonioxTimeoutError"

\* ------------------------------------------------------------------------
\* invocation i failed with a configuration error
ClientErrorRaised(i) == call[i].primary.kind = "SonioxClientError"

Rank(k) ==
    CASE k = "upload" -> 1
      [] k = "create" -> 2
      [] k = "poll" -> 3
      [] k = "fetch" -> 4
      [] k = "delete_job" -> 5
      [] k = "delete_file" -> 6

\* a request log in the fixed order: places never go back, only status
\* polls repeat, a status poll comes after a create, a fetch right after a
\* status poll
InOrder(log) ==
    /\ \A m, n \in DOMAIN log :
        m < n => /\ Rank(log[m].req) <= Rank(log[n].req)
                 /\ Rank(log[m].req) = Rank(log[n].req) => log[m].req = "poll"
    /\ \A n \in DOMAIN log :
        /\ log[n].req = "poll" => n > 1 /\ log[n - 1].req \in {"create", "poll"}
        /\ log[n].req = "fetch" => n > 1 /\ log[n - 1].req = "poll"

\* log q is log p, or p with one more request
OneMore(p, q) ==
    /\ Len(q) \in {Len(p), Len(p) + 1}
    /\ \A n \in DOMAIN p : q[n] = p[n]

\* invocation state c holds the response to the last step request
Processed(c) ==
    c.log /= <<>> /\ c.log[Len(c.log)].req \in StepKinds => c.resp /= NoResp

\* C22: an invocation issues its requests one at a time, in the order upload
\* (if any), create, one or more status polls, transcript fetch, job delete,
\* file delete (a failed run ends the steps early and goes on to the
\* deletes); a step adds at most one request, when the response to the
\* previous one has been handled; no step request follows a delete.
C22_RequestOrder ==
    [][\A i \in Invocations :
        /\ OneMore(call[i].log, call'[i].log)
        /\ InOrder(call'[i].log)
        /\ Processed(call[i])]_vars

\* a full run: upload, create, two status polls, fetch, both deletes
C22_Witness ==
    \E i \in Invocations :
        /\ Done(i)
        /\ [n \in DOMAIN call[i].log |-> call[i].log[n].req] =
             <<"upload", "create", "poll", "poll", "fetch", "delete_job", "delete_file">>

\* ------------------------------------------------------------------------
\* invocation i has issued the transcript fetch or built a document
FetchedOrBuilt(i) == Issued(i, "fetch") /= {} \/ call[i].docs /= <<>>

\* a status poll of invocation i was answered completed, and it is the
\* request right before the fetch
CompletedSeen(i) ==
    /\ call[i].final_status /= NoResp
    /\ call[i].final_status.jstatus = "completed"
    /\ ~call[i].all_pending
    /\ \A n \in Issued(i, "fetch") : n > 1 /\ call[i].log[n - 1].req = "poll"

\* C23: the transcript fetch is issued, and a document built, only after a
\* status poll of the same invocation was answered completed: never while
\* every poll so far was answered queued or processing, never after a poll
\* answered error, never after the timeout; and no document without a
\* fetch.
C23_FetchOnlyAfterCompleted ==
    \A i \in Invocations :
        /\ FetchedOrBuilt(i) => CompletedSeen(i)
        /\ call[i].docs /= <<>> => Issued(i, "fetch") /= {}
        /\ call[i].primary.kind
             \in {"SonioxTimeoutError", "SonioxTranscriptionFailedError"}
             => ~FetchedOrBuilt(i)
        /\ (call[i].pc \in {"poll", "sleep"} \/ call[i].all_pending)
             => ~FetchedOrBuilt(i)

\* a document built after a processing poll and then a completed one
C23_Witness ==
    \E i \in Invocations :
        /\ Len(call[i].docs) = 1
        /\ call[i].polls = 2
        /\ call[i].final_status.jstatus = "completed"
        /\ Issued(i, "fetch") /= {}

\* ------------------------------------------------------------------------
\* the API key construction resolved: the argument when given, else the
\* environment's
ResolvedKey == IF KeyGiven(ctor_args) THEN ctor_args.api_key ELSE environ

\* C24: every request of an invocation, step or delete, carries the header
\* Authorization: 'Bearer ' followed by the loader's resolved API key.
C24_BearerOnEveryRequest ==
    \A i \in Invocations :
        \A n \in DOMAIN call[i].log :
            /\ DOMAIN call[i].log[n].auth = {"Authorization"}
            /\ call[i].log[n].auth.Authorization = <<"Bearer ", ResolvedKey>>

\* a run with the key taken from the environment issued all six kinds of
\* request
C24_Witness ==
    \E i \in Invocations :
        /\ Done(i)
        /\ ctor_args.api_key = None
        /\ \A k \in StepKinds \cup DeleteKinds : Issued(i, k) /= {}
        /\ call[i].log[1].auth.Authorization = <<"Bearer ", "env_key">>

\* ------------------------------------------------------------------------
\* the kind of the last step request invocation state c issued
LastStepKind(c) ==
    LET S == {n \in DOMAIN c.log : c.log[n].req \in StepKinds}
    IN  c.log[CHOOSE n \in S : \A m \in S : m <= n].req

\* the last step request of invocation state c was answered with a status
\* outside 2xx / with a status of 400 or more
AnsweredNon2xx(c) ==
    c.resp /= NoResp /\ ~c.resp.raised /\ (c.resp.status < 200 \/ c.resp.status > 299)
AnsweredError(c) == c.resp /= NoResp /\ ~c.resp.raised /\ c.resp.status >= 400

\* upload, create, fetch and each delete issued at most once; no status poll
\* after an error status or the timeout
IssuedOnce(i) ==
    /\ \A k \in {"upload", "create", "fetch", "delete_job", "delete_file"} :
        Cardinality(Issued(i, k)) <= 1
    /\ call[i].primary.kind
         \in {"SonioxTimeoutError", "SonioxTranscriptionFailedError"}
         => "poll" \notin NewRequests(i)

\* C25 (as claimed): nothing is retried. The upload, the create, the fetch
\* and each delete are issued at most once per invocation, and a request
\* answered with a status outside 2xx, or ended by an error status or the
\* timeout, is never issued again.
C25_NothingRetried ==
    [][\A i \in Invocations :
        /\ IssuedOnce(i)
        /\ AnsweredNon2xx(call[i]) => LastStepKind(call[i]) \notin NewRequests(i)]_vars

\* C25 for the statuses of 400 and more
C25_NothingRetriedAfterError ==
    [][\A i \in Invocations :
        /\ IssuedOnce(i)
        /\ AnsweredError(call[i]) => LastStepKind(call[i]) \notin NewRequests(i)]_vars

\* ------------------------------------------------------------------------
\* the body of response r is a structured error: JSON with the fields of
\* ApiError
Structured(r) ==
    /\ r.json /= [not_json |-> TRUE]
    /\ \A f \in {"status_code", "error_type", "message", "request_id"} :
        f \in DOMAIN r.json

\* C26: a SonioxAPIError built from an error response has the HTTP status as
\* status_code, whatever the body says. With a structured body its message
\* and request_id are the body's; otherwise it has no request_id and no
\* api_error, and its message is the raw text of the response, or
\* 'Request failed with status N' when the text is empty.
C26_APIErrorFields ==
    api_error.built =>
        LET r == api_error.response
            e == api_error.error
        IN  /\ e.status_code = r.status_code
            /\ Structured(r) =>
                /\ e.message = <<r.json.message>>
                /\ e.request_id = r.json.request_id
                /\ e.api_error = r.json
            /\ ~Structured(r) =>
                /\ e.request_id = "None"
                /\ DOMAIN e.api_error = {}
                /\ r.text /= "" => e.message = <<r.text>>
                /\ r.text = "" =>
                     e.message = <<"Request failed with status ", r.status_code>>

\* an error built from a 503 whose structured body says 400
C26_Witness ==
    /\ api_error.built
    /\ api_error.response.status_code = 503
    /\ Structured(api_error.response)
    /\ api_error.response.json.status_code = 400
    /\ api_error.error.status_code = 503
    /\ api_error.error.request_id = "req_2"

\* a second witness state of C26: an error built from an empty 404
C26_WitnessEmpty ==
    /\ api_error.built
    /\ api_error.response.status_code = 404
    /\ api_error.response.text = ""
    /\ api_error.error.message = <<"Request failed with status ", 404>>

\* ------------------------------------------------------------------------
\* C27: each invocation has its own session, open from the start of the
\* invocation (once base_url was found set) to its end: every request, the
\* cleanup deletes included, is issued while the session is open; the session
\* is closed only by the exit that follows the deletes; an invocation that has
\* ended - normally, with an error or cancelled - has its session closed
\* (none was opened when base_url was found unset); nothing happens on a
\* closed session.
C27_SessionScoped ==
    [][\A i \in Invocations :
        /\ Len(call'[i].log) > Len(call[i].log) =>
              call[i].session = "open" /\ call'[i].session = "open"
        /\ (call[i].session = "open" /\ call'[i].session /= "open") =>
              /\ call[i].pc = "exit"
              /\ call'[i].session = "closed"
              /\ call'[i].log = call[i].log
        /\ call'[i].pc = "done" =>
              IF loader.base_url = None
              THEN call'[i].session = "none" /\ call'[i].log = <<>>
              ELSE call'[i].session = "closed"
        /\ call[i].session = "closed" => call'[i] = call[i]]_vars

\* a cancelled invocation has ended: its deletes went out and its session is
\* closed
C27_Witness ==
    \E i \in Invocations :
        /\ call[i].pc = "done"
        /\ call[i].outcome.kind = "CancelledError"
        /\ call[i].session = "closed"
        /\ Issued(i, "delete_job") /= {}
        /\ Issued(i, "delete_file") /= {}

\* two more witness states of C27: ended normally, and ended with an error
C27_WitnessSuccess ==
    \E i \in Invocations :
        /\ call[i].pc = "done"
        /\ call[i].outcome = NoExc
        /\ call[i].docs /= <<>>
        /\ call[i].session = "closed"

C27_WitnessFailure ==
    \E i \in Invocations :
        /\ call[i].pc = "done"
        /\ call[i].outcome.kind = "SonioxAPIError"
        /\ call[i].session = "closed"

\* ------------------------------------------------------------------------
\* the requests of invocation i that name a job, and the one that names a file
JobRequests == {"poll", "fetch", "delete_job"}

\* C28: with two invocations interleaved on one loader, every status poll,
\* transcript fetch and job delete of an invocation names the job id its own
\* create request was answered with, and its file delete the file id its own
\* upload was answered with; a step of one invocation changes nothing of the
\* other, and is a step the invocation could take from the same state of its
\* own with the other one absent; the loader stays as it was when the
\* invocation started.
C28_InvocationsIndependent ==
    [][\A i \in Invocations :
        /\ call[i].pc /= "idle" => loader' = loader
        /\ \A n \in DOMAIN call'[i].log :
            LET q == call'[i].log[n]
            IN  /\ q.req \in JobRequests =>
                     q.target = call'[i].transcription_id /\ q.target = OwnJobId(i)
                /\ q.req = "delete_file" =>
                     q.target = call'[i].file_id /\ q.target = OwnFileId(i)
        /\ call'[i] /= call[i] =>
            /\ \A j \in Invocations \ {i} : call'[j] = call[j]
            /\ \/ \E k \in Moves :
                    /\ CanStep(call[i], k)
                    /\ \E r \in OwnResponses(i, k) :
                         call'[i] = Stepped(call[i], OwnMode(i), k, r)
               \/ /\ call[i].pc = "sleep"
                  /\ call'[i] = Raise(call[i], Exc("CancelledError", <<>>))]_vars

\* both invocations have ended with a document each, after deleting their own
\* job and file, the second one having started before the first one ended
C28_Witness ==
    /\ \A i \in Invocations :
        /\ call[i].pc = "done"
        /\ call[i].docs /= <<>>
        /\ call[i].file_id = OwnFileId(i)
        /\ call[i].transcription_id = OwnJobId(i)
        /\ Issued(i, "delete_job") /= {}
        /\ Issued(i, "delete_file") /= {}
    /\ call[1].file_id /= call[2].file_id

\* a second witness state of C28: one invocation is polling while the other
\* is in its cleanup
C28_WitnessInterleaved ==
    /\ call[1].pc = "poll"
    /\ call[1].polls = 1
    /\ call[2].pc = "delete_file"
    /\ call[2].transcription_id = OwnJobId(2)

\* ------------------------------------------------------------------------
\* the uploads invocation i has issued
Uploads(i) == Issued(i, "upload")

\* the loader was given a path or bytes (possibly empty), not a URL
PathOrBytesSource == loader.file_url = None

\* C29 (as claimed): an invocation that has ended on a loader with a path or
\* bytes source has issued exactly one upload, as its first request; one on a
\* loader with a URL source has issued no upload, and the create request
\* first.
C29_UploadFirst ==
    \A i \in Invocations :
        Done(i) =>
            /\ call[i].log /= <<>>
            /\ IF PathOrBytesSource
               THEN Cardinality(Uploads(i)) = 1 /\ call[i].log[1].req = "upload"
               ELSE Uploads(i) = {} /\ call[i].log[1].req = "create"

\* C29 (amended): on a loader with a path or bytes source an invocation
\* issues at most one upload, and its first request, if it issues any, is the
\* upload; it has issued exactly one when it has ended, the source is not
\* empty, base_url is set and opening the file did not fail. On a loader with
\* a URL source it issues no upload, and its first request, if it issues
\* any, is the create request; it has issued one when it has ended, the URL
\* is not empty and base_url is set.
C29_UploadFirstIfAny ==
    \A i \in Invocations :
        call[i].pc /= "idle" =>
            IF PathOrBytesSource
            THEN /\ Cardinality(Uploads(i)) <= 1
                 /\ call[i].log /= <<>> => call[i].log[1].req = "upload"
                 /\ ( /\ Done(i)
                      /\ loader.file_path /= ""
                      /\ loader.file_data /= ""
                      /\ loader.base_url /= "None"
                      /\ call[i].primary.kind /= "OSError" )
                    => Cardinality(Uploads(i)) = 1
            ELSE /\ Uploads(i) = {}
                 /\ call[i].log /= <<>> => call[i].log[1].req = "create"
                 /\ (Done(i) /\ loader.file_url /= "" /\ loader.base_url /= "None")
                    => call[i].log /= <<>>

\* an invocation on a loader with a path source has ended after an upload,
\* a create request and more
C29_Witness ==
    \E i \in Invocations :
        /\ Done(i)
        /\ loader.file_path = "audio/test.mp3"
        /\ Cardinality(Uploads(i)) = 1
        /\ call[i].log[1].req = "upload"
        /\ Len(call[i].log) >= 3

\* more witness states of C29: a URL source, create first; an empty path
\* that construction accepted, nothing sent
C29_WitnessUrl ==
    \E i \in Invocations :
        /\ Done(i)
        /\ loader.file_url = "https://example.com/a.mp3"
        /\ call[i].log /= <<>>
        /\ call[i].log[1].req = "create"

C29_WitnessEmptyPath ==
    \E i \in Invocations :
        /\ Done(i)
        /\ loader.constructed
        /\ loader.file_path = ""
        /\ loader.base_url /= "None"
        /\ call[i].log = <<>>
        /\ call[i].outcome.kind = "SonioxClientError"

\* ------------------------------------------------------------------------
\* the audio_duration_ms, model and created_at of document doc
DocMeta(doc) ==
    [audio_duration_ms |-> doc.audio_duration_ms, model |-> doc.model,
     created_at |-> doc.created_at]

\* the same three fields of the last status response invocation i validated
LastStatusMeta(i) == call[i].seen[Len(call[i].seen)]

\* C30: the audio_duration_ms, model and created_at of the document are those
\* of the last status response of the invocation, which is the one that
\* reported completed - whatever the create response and the earlier status
\* responses carried.
C30_MetadataFromCompletedStatus ==
    \A i \in Invocations :
        call[i].docs /= <<>> =>
            /\ Len(call[i].docs) = 1
            /\ Len(call[i].seen) = 1 + Cardinality(Issued(i, "poll"))
            /\ call[i].final_status.jstatus = "completed"
            /\ LastStatusMeta(i) =
                 [audio_duration_ms |-> call[i].final_status.audio_duration_ms,
                  model |-> call[i].final_status.model,
                  created_at |-> call[i].final_status.created_at]
            /\ DocMeta(call[i].docs[1]) = LastStatusMeta(i)

\* a document whose three fields are those of the second status response,
\* the create response and the first status response having carried others
C30_Witness ==
    \E i \in Invocations :
        /\ call[i].docs /= <<>>
        /\ Len(call[i].seen) = 3
        /\ call[i].seen[1] = [audio_duration_ms |-> <<>>, model |-> "stt-async-v4",
                              created_at |-> "2024-11-26T00:00:00Z"]
        /\ call[i].seen[2] = [audio_duration_ms |-> <<>>, model |-> "stt-async-v3",
                              created_at |-> "2024-11-26T00:00:00Z"]
        /\ DocMeta(call[i].docs[1]) =
             [audio_duration_ms |-> <<1000>>, model |-> "stt-async-v4",
              created_at |-> "2024-11-26T00:00:01Z"]

\* ------------------------------------------------------------------------
\* status response r reports a job still pending
PendingStatus(r) == ~r.raised /\ r.valid /\ r.jstatus \in {"queued", "processing"}

\* a status request failed: it raised, was answered with a status outside
\* 2xx, or with a body that does not validate
PollFailed(r) == r.raised \/ r.status < 200 \/ r.status > 299 \/ ~r.valid

\* the same with 'a status of 400 or more' in place of 'outside 2xx'
PollFailedAsError(r) == r.raised \/ r.status >= 400 \/ ~r.valid

\* this step is the answer to the create request of invocation i, and the
\* invocation goes on
JobCreated(i) ==
    /\ Len(call'[i].log) = Len(call[i].log) + 1
    /\ call'[i].log[Len(call'[i].log)].req = "create"
    /\ call'[i].primary.kind = "none"

\* the delays of invocation i, where Failed tells the failed polls: after the
\* create response the invocation is at the top of the first poll iteration
\* with no time passed; a poll answered queued or processing is followed by
\* the delay, any other poll (terminal status, failed) is not; the delay
\* is entered only by such a poll, lasts polling_interval_seconds, issues no
\* request and ends at the top of the next iteration (or in the cleanup, when
\* the task is cancelled)
DelaysOf(i, Failed(_)) ==
    /\ JobCreated(i) => call'[i].pc = "poll" /\ call'[i].polls = 0 /\ now' = now
    /\ PollIssued(i) =>
         IF Failed(call'[i].resp) THEN call'[i].pc /= "sleep"
         ELSE call'[i].pc = "sleep" <=> PendingStatus(call'[i].resp)
    /\ (call'[i].pc = "sleep" /\ call[i].pc /= "sleep") => PollIssued(i)
    /\ (call[i].pc = "sleep" /\ call'[i] /= call[i]) =>
         /\ call'[i].log = call[i].log
         /\ \/ /\ call'[i].pc = "poll"
               /\ now' = now + loader.polling_interval_seconds
            \/ /\ call'[i].pc = "delete_job"
               /\ call'[i].primary.kind = "CancelledError"
               /\ now' = now
    /\ (call[i].pc \notin {"sleep", "poll"} /\ call'[i] /= call[i]) => now' = now

\* C31 (as claimed): the first status poll follows the create response with
\* no delay; after each status poll answered queued or processing exactly one
\* delay of polling_interval_seconds precedes the next deadline check; no
\* delay follows a poll answered completed or error, or a failed poll (one
\* that raised or was answered with a status outside 2xx or an invalid
\* body).
C31_PollDelays ==
    [][\A i \in Invocations : DelaysOf(i, PollFailed)]_vars

\* C31 for the statuses of 400 and more
C31_PollDelaysAfterError ==
    [][\A i \in Invocations : DelaysOf(i, PollFailedAsError)]_vars

\* a state the C31 runs go through: two polls made, one delay of
\* polling_interval_seconds = 1 between them, the second answered completed
C31_Witness ==
    \E i \in Invocations :
        /\ call[i].pc = "fetch"
        /\ call[i].polls = 2
        /\ loader.polling_interval_seconds = 1
        /\ loader.timeout_seconds = 1
        /\ now - call[i].start_time = 1

\* ------------------------------------------------------------------------
\* the cleanup of invocation i is over
CleanupOver(i) == call[i].pc \in {"exit", "done"}

\* the job delete of invocation i was issued and raised
JobDeleteRaised(i) == Issued(i, "delete_job") /= {} /\ call[i].job_delete.raised

C32_WitnessFileDeleteRaised ==
    \E i \in Invocations :
        /\ CleanupOver(i)
        /\ Issued(i, "delete_job") /= {}
        /\ call[i].job_delete.status = 200
        /\ Issued(i, "delete_file") /= {}
        /\ call[i].file_delete.raised

C32_WitnessInterrupted ==
    \E i \in Invocations :
        /\ call[i].pc = "done"
        /\ call[i].interrupted
        /\ call[i].file_id = "file_123"
        /\ call[i].outcome.kind = "KeyboardInterrupt"
        /\ Issued(i, "delete_file") = {}

\* ------------------------------------------------------------------------
\* the delete requests invocation state c has issued
DeletesIssued(c) == {n \in DOMAIN c.log : c.log[n].req \in DeleteKinds}

\* C33: the document is handed to the consumer with no delete issued yet;
\* while the generator is suspended at the yield no delete is issued; the
\* step that leaves the yield is the consumer's (it resumes or closes the
\* generator) and issues nothing itself; in a run that delivered a document
\* the deletes are issued only in the cleanup that follows.
C33_DocumentBeforeDeletes ==
    [][\A i \in Invocations :
        /\ call'[i].docs /= call[i].docs =>
              /\ call[i].docs = <<>>
              /\ Len(call'[i].docs) = 1
              /\ call'[i].pc = "yielded"
              /\ DeletesIssued(call'[i]) = {}
        /\ call[i].pc = "yielded" =>
              /\ Len(call[i].docs) = 1
              /\ DeletesIssued(call[i]) = {}
              /\ call'[i] /= call[i] =>
                    /\ call'[i].pc = "delete_job"
                    /\ call'[i].log = call[i].log
                    /\ call'[i].docs = call[i].docs
        /\ DeletesIssued(call'[i]) /= DeletesIssued(call[i]) =>
              /\ call[i].pc \in {"delete_job", "delete_file"}
              /\ call[i].primary = NoExc => Len(call[i].docs) = 1]_vars

\* a successful run is over: the document was delivered, the consumer closed
\* the generator, both deletes went out
C33_Witness ==
    \E i \in Invocations :
        /\ Done(i)
        /\ call[i].outcome = NoExc
        /\ Len(call[i].docs) = 1
        /\ call[i].closed
        /\ Issued(i, "delete_job") /= {}
        /\ Issued(i, "delete_file") /= {}

\* a second witness state of C33: the consumer holds the document of a job
\* and a file that are still there
C33_WitnessYielded ==
    \E i \in Invocations :
        /\ call[i].pc = "yielded"
        /\ Len(call[i].docs) = 1
        /\ call[i].file_id = "file_123"
        /\ call[i].transcription_id = "trans_456"
        /\ DeletesIssued(call[i]) = {}

\* ------------------------------------------------------------------------
\* invocation i has started
StartedRun(i) == call[i].pc /= "idle"

\* the poll loop of invocation i is never held up: at the top of an iteration
\* the deadline has passed or the next status poll can go out, and the
\* polls made are at most timeout_seconds + 1 when each delay is a second or
\* more
PollsBounded ==
    \A i \in Invocations :
        StartedRun(i) =>
            /\ call[i].polls <= loader.timeout_seconds + 1
            /\ call[i].pc = "poll" =>
                 \/ now - call[i].start_time > loader.timeout_seconds
                 \/ call[i].polls < MaxPolls

\* C34: with every request answered and a positive polling interval, every
\* invocation that started ends, whatever the service answers - also when
\* every status poll is answered queued or processing: the poll loop makes a
\* bounded number of polls (at most timeout_seconds + 1 for delays of a
\* second or more) and then the deadline check ends it.
C34_Terminates ==
    /\ []PollsBounded
    /\ \A i \in Invocations : StartedRun(i) ~> Done(i)

\* the service never reported a terminal status: the run made its polls and
\* was ended by the timeout
C34_Witness ==
    \E i \in Invocations :
        /\ Done(i)
        /\ call[i].outcome.kind = "SonioxTimeoutError"
        /\ call[i].all_pending
        /\ call[i].polls = loader.timeout_seconds + 1
        /\ loader.timeout_seconds = MaxTimeout

\* ------------------------------------------------------------------------
\* this step is the answer to the upload of invocation i, and the invocation
\* goes on
FileUploaded(i) ==
    /\ Len(call'[i].log) = Len(call[i].log) + 1
    /\ call'[i].log[Len(call'[i].log)].req = "upload"
    /\ call'[i].primary.kind = "none"

\* C35: the job id of an invocation is the id of its create response and its
\* file id the id of its upload response, neither changes afterwards, every
\* status poll, the transcript fetch and the job delete name that job id,
\* the file delete names that file id, and the transcription_id of the
\* document is that job id - whatever id the status and transcript
\* responses carry.
C35_IdsFromCreateAndUpload ==
    [][\A i \in Invocations :
        /\ FileUploaded(i) => call'[i].file_id = call'[i].resp.id
        /\ call'[i].file_id /= call[i].file_id => FileUploaded(i)
        /\ JobCreated(i) => call'[i].transcription_id = call'[i].resp.id
        /\ call'[i].transcription_id /= call[i].transcription_id => JobCreated(i)
        /\ \A n \in DOMAIN call'[i].log \ DOMAIN call[i].log :
            LET q == call'[i].log[n]
            IN  /\ q.req \in JobRequests => q.target = call[i].transcription_id
                /\ q.req = "delete_file" => q.target = call[i].file_id
        /\ call'[i].docs /= call[i].docs =>
            call'[i].docs[1].transcription_id = call[i].transcription_id]_vars

\* a run is over whose job trans_789 was reported and transcribed under
\* the id trans_000: polls, fetch, job delete and document name trans_789,
\* the file delete names the uploaded file
C35_Witness ==
    \E i \in Invocations :
        /\ Done(i)
        /\ call[i].file_id = "file_789"
        /\ call[i].transcription_id = "trans_789"
        /\ call[i].final_status.id = "trans_000"
        /\ call[i].resp.id = "trans_000"
        /\ Len(call[i].docs) = 1
        /\ call[i].docs[1].transcription_id = "trans_789"
        /\ \A n \in DOMAIN call[i].log :
            /\ call[i].log[n].req \in JobRequests =>
                 call[i].log[n].target = "trans_789"
            /\ call[i].log[n].req = "delete_file" =>
                 call[i].log[n].target = "file_789"
        /\ \A k \in {"poll", "fetch", "delete_job", "delete_file"} :
            Issued(i, k) /= {}

\* ------------------------------------------------------------------------
\* a response with a 2xx status whose body does not validate
Invalid2xx(r) == ~r.raised /\ r.status >= 200 /\ r.status <= 299 /\ ~r.valid

\* this step issues a step request in invocation i
StepIssued(i) == NewRequests(i) \cap StepKinds /= {}

\* what an invalid body does to invocation i, where Has tells the ids whose
\* job or file the cleanup is to delete: the step that gets a 2xx response
\* with such a body leaves the try block with the validation error and no
\* document; from then on no step request is issued and no document
\* yielded; when the invocation has ended the error has reached the caller
\* and the deletes of the job and of the file have been issued
InvalidBodyAborts(i, Has(_)) ==
    /\ (StepIssued(i) /\ Invalid2xx(call'[i].resp)) =>
          /\ call'[i].primary.kind = "ValidationError"
          /\ call'[i].pc = "delete_job"
          /\ call'[i].docs = <<>>
    /\ call[i].primary.kind = "ValidationError" =>
          /\ ~StepIssued(i)
          /\ call'[i].docs = <<>>
          /\ call'[i].primary = call[i].primary
    /\ (call'[i].pc = "done" /\ call'[i].primary.kind = "ValidationError") =>
          /\ call'[i].outcome = call'[i].primary
          /\ Has(call'[i].transcription_id) =>
               Cardinality({n \in DOMAIN call'[i].log :
                               call'[i].log[n].req = "delete_job"}) = 1
          /\ Has(call'[i].file_id) =>
               Cardinality({n \in DOMAIN call'[i].log :
                               call'[i].log[n].req = "delete_file"}) = 1

\* C36 (as claimed): a 2xx response whose body does not validate ends the
\* invocation with a failure and no document, no further step request is
\* issued, and the cleanup deletes the job and the file whose ids were
\* obtained before.
C36_InvalidBodyAborts ==
    [][\A i \in Invocations : InvalidBodyAborts(i, Obtained)]_vars

\* C36 (amended): as C36, the cleanup deleting the job and the file whose
\* ids were obtained and are not empty.
C36_InvalidBodyAbortsNonEmpty ==
    [][\A i \in Invocations : InvalidBodyAborts(i, NonEmpty)]_vars

\* a status poll answered 200 with an invalid body after an upload and a
\* create: the run ended with the validation error, no document, both deletes
C36_Witness ==
    \E i \in Invocations :
        /\ Done(i)
        /\ call[i].outcome.kind = "ValidationError"
        /\ call[i].resp.status = 200
        /\ ~call[i].resp.valid
        /\ LastStepKind(call[i]) = "poll"
        /\ call[i].file_id = "file_123"
        /\ call[i].transcription_id = "trans_456"
        /\ call[i].docs = <<>>
        /\ Cardinality(Issued(i, "delete_job")) = 1
        /\ Cardinality(Issued(i, "delete_file")) = 1

====
